---- MODULE Spec2Model ----
(***************************************************************************)
(* EatFit24 AI proxy: the request handler (app/main.py), the gate stage    *)
(* (app/food_gate.py), the error table (app/schemas.py), the settings      *)
(* (app/config.py), the retrying upstream client and the recognition stage *)
(* with its coercion of the model's answer (app/openrouter_client.py).     *)
(*                                                                         *)
(* Numbers: a confidence is kept in hundredths (0.9 is 90, 1.0 is 100), a  *)
(* backoff delay in seconds, a file size in bytes scaled down to a few     *)
(* units.  A Python Optional[float] is a pair (has_confidence, confidence).*)
(* An exception message is kept as its fixed part (text) and the set of    *)
(* the keywords the handler searches it for ("timeout", "rate", "429").    *)
(***************************************************************************)
EXTENDS Integers, Sequences, FiniteSets, TLC

VARIABLES
    settings,   \* the process-wide Settings instance (config.py:115)
    pc,         \* per request: where its handler task is
    req,        \* per request: the upload and the upstream's behaviour for it
    request_id_ctx, \* per request task: the value of the ContextVar (main.py:26)
    trace_id,   \* per request: the value recognize_food read from request_id_ctx
    gate_reply, \* per request: what the upstream answered the gate POST
    gate_result,\* per request: the GateResult check_food_gate returned
    gate_error, \* per request: the OpenRouterError check_food_gate raised
    gate_calls, \* per request: gate POSTs issued
    recog_calls,\* per request: recognition calls issued
    resp,       \* per request: the JSONResponse returned
    cl,         \* one call of _make_openrouter_request
    rg          \* one call of recognize_food_with_bytes

vars == <<settings, pc, req, request_id_ctx, trace_id, gate_reply, gate_result, gate_error,
          gate_calls, recog_calls, resp, cl, rg>>

handlerVars == <<settings, pc, req, request_id_ctx, trace_id, gate_reply, gate_result,
                 gate_error, gate_calls, recog_calls, resp>>

-----------------------------------------------------------------------------
(* Bounds of the model *)

\* settings.max_image_size_bytes, scaled: uploads of 0 .. MaxImageSize + 1 bytes
MaxImageSize == 2

Requests == {"r1", "r2"}

-----------------------------------------------------------------------------
(* app/config.py *)

\* The fields the Settings class declares, with their defaults; the compat
\* flag is what the deployment's environment sets.
SettingsOf(compat) ==
    [ openrouter_api_key   |-> "key",
      openrouter_model     |-> "model",
      openrouter_gate_model|-> "",
      openrouter_base_url  |-> "https://openrouter.ai/api/v1",
      api_proxy_secret     |-> "secret",
      app_name             |-> "EatFit24 AI Proxy",
      log_level            |-> "INFO",
      max_image_size_bytes |-> MaxImageSize,
      food_gate_threshold  |-> 60,
      recognition_threshold|-> 65,
      error_http200_compat |-> compat ]

\* Python attribute access on a pydantic model: a name the class does not
\* declare raises AttributeError.
HasAttr(obj, name) == name \in DOMAIN obj

-----------------------------------------------------------------------------
(* app/schemas.py *)

\* ErrorCode = Literal[...]: the codes ErrorResponse.error_code accepts
ErrorCode ==
    { "UNSUPPORTED_CONTENT", "EMPTY_RESULT", "INVALID_IMAGE",
      "UNSUPPORTED_IMAGE_FORMAT", "IMAGE_TOO_LARGE", "GATE_ERROR",
      "UPSTREAM_ERROR", "UPSTREAM_TIMEOUT", "RATE_LIMIT" }

Defn(status, action, retry, code) ==
    [ http_status  |-> status,
      user_title   |-> "title:" \o code,
      user_message |-> "message:" \o code,
      user_actions |-> <<action>>,
      allow_retry  |-> retry ]

ERROR_DEFINITIONS ==
    [ UNSUPPORTED_CONTENT      |-> Defn(400, "retake", FALSE, "UNSUPPORTED_CONTENT"),
      EMPTY_RESULT             |-> Defn(400, "retake", FALSE, "EMPTY_RESULT"),
      INVALID_IMAGE            |-> Defn(400, "retake", FALSE, "INVALID_IMAGE"),
      UNSUPPORTED_IMAGE_FORMAT |-> Defn(400, "retake", FALSE, "UNSUPPORTED_IMAGE_FORMAT"),
      IMAGE_TOO_LARGE          |-> Defn(413, "retake", FALSE, "IMAGE_TOO_LARGE"),
      GATE_ERROR               |-> Defn(502, "retry", TRUE, "GATE_ERROR"),
      UPSTREAM_ERROR           |-> Defn(502, "retry", TRUE, "UPSTREAM_ERROR"),
      UPSTREAM_TIMEOUT         |-> Defn(504, "retry", TRUE, "UPSTREAM_TIMEOUT"),
      RATE_LIMIT               |-> Defn(429, "retry", TRUE, "RATE_LIMIT") ]

\* GateResult(is_food: Optional[bool], confidence: Optional[float], reason)
GateResult(is_food, has_confidence, confidence, reason) ==
    [ is_food |-> is_food, has_confidence |-> has_confidence,
      confidence |-> confidence, reason |-> reason ]

NoGateResult == GateResult("-", FALSE, 0, "-")

-----------------------------------------------------------------------------
(* app/main.py: responses *)

\* One shape for both bodies; the fields of the other kind stay at "-"/0/<<>>.
NoResponse ==
    [ kind |-> "none", http |-> 0, header_trace_id |-> "-",
      error_code |-> "-", user_title |-> "-", user_message |-> "-",
      user_actions |-> <<>>, allow_retry |-> FALSE, trace_id |-> "-",
      is_food |-> FALSE, confidence |-> 0, gate_reason |-> "-",
      items |-> <<>>, total_kcal |-> 0 ]

\* ErrorResponse(**data): pydantic rejects an error_code outside the Literal
ErrorResponseValid(error_code) == error_code \in ErrorCode

\* Mutant of make_error_response: the compat flag is ignored and the
\* descriptor's status is always sent.
make_error_response_NoCompat(s, error_code, trace, custom) ==
    LET defn == IF error_code \in DOMAIN ERROR_DEFINITIONS
                THEN ERROR_DEFINITIONS[error_code]
                ELSE ERROR_DEFINITIONS["UPSTREAM_ERROR"]
    IN  IF ~ErrorResponseValid(error_code)
        THEN [ raised |-> TRUE, response |-> NoResponse ]
        ELSE [ raised |-> FALSE,
               response |->
                 [ NoResponse EXCEPT
                     !.kind = "error",
                     !.http = defn.http_status,
                     !.error_code = error_code,
                     !.user_title = defn.user_title,
                     !.user_message = IF custom # "" THEN custom
                                      ELSE defn.user_message,
                     !.user_actions = defn.user_actions,
                     !.allow_retry = defn.allow_retry,
                     !.trace_id = trace ] ]

\* Mutant of make_error_response: in compat mode the body is changed too
\* (allow_retry is dropped).
make_error_response_CompatChangesBody(s, error_code, trace, custom) ==
    LET defn == IF error_code \in DOMAIN ERROR_DEFINITIONS
                THEN ERROR_DEFINITIONS[error_code]
                ELSE ERROR_DEFINITIONS["UPSTREAM_ERROR"]
        http_status == IF s.error_http200_compat THEN 200 ELSE defn.http_status
    IN  IF ~ErrorResponseValid(error_code)
        THEN [ raised |-> TRUE, response |-> NoResponse ]
        ELSE [ raised |-> FALSE,
               response |->
                 [ NoResponse EXCEPT
                     !.kind = "error",
                     !.http = http_status,
                     !.error_code = error_code,
                     !.user_title = defn.user_title,
                     !.user_message = IF custom # "" THEN custom
                                      ELSE defn.user_message,
                     !.user_actions = defn.user_actions,
                     !.allow_retry = defn.allow_retry /\ ~s.error_http200_compat,
                     !.trace_id = trace ] ]

\* make_error_response(error_code, trace_id, custom_message) under settings s.
\* custom is "" for None.  raised: the ErrorResponse constructor raised
\* ValidationError and nothing was returned.
make_error_response(s, error_code, trace, custom) ==
    LET defn == IF error_code \in DOMAIN ERROR_DEFINITIONS
                THEN ERROR_DEFINITIONS[error_code]
                ELSE ERROR_DEFINITIONS["UPSTREAM_ERROR"]
        http_status == IF s.error_http200_compat THEN 200 ELSE defn.http_status
    IN  IF ~ErrorResponseValid(error_code)
        THEN [ raised |-> TRUE, response |-> NoResponse ]
        ELSE [ raised |-> FALSE,
               response |->
                 [ NoResponse EXCEPT
                     !.kind = "error",
                     !.http = http_status,
                     !.error_code = error_code,
                     !.user_title = defn.user_title,
                     !.user_message = IF custom # "" THEN custom
                                      ELSE defn.user_message,
                     !.user_actions = defn.user_actions,
                     !.allow_retry = defn.allow_retry,
                     !.trace_id = trace ] ]

\* Mutant of CatchAll: the exception is not caught; nothing is returned.
CatchAll_Propagates(s, trace) == NoResponse

\* The catch-all of recognize_food (main.py:403-411): any exception raised in
\* the handler body becomes an UPSTREAM_ERROR response.
CatchAll(s, trace) == make_error_response(s, "UPSTREAM_ERROR", trace, "").response

\* `body, status = make_error_response(...); return JSONResponse(...)` at a
\* place inside the handler's outer try: a ValidationError raised while the
\* body is built goes to the catch-all.
ErrorReturn(s, error_code, trace, custom) ==
    LET r == make_error_response(s, error_code, trace, custom)
    IN  IF r.raised THEN CatchAll(s, trace) ELSE r.response

\* Mutant of ClassifyOpenRouterError: the "timeout" branch is missing.
ClassifyOpenRouterError_NoTimeout(msg) ==
    IF "rate" \in msg \/ "429" \in msg THEN "RATE_LIMIT"
    ELSE "UPSTREAM_ERROR"

\* Mutant of ClassifyOpenRouterError: the rate-limit branch is missing.
ClassifyOpenRouterError_NoRateLimit(msg) ==
    IF "timeout" \in msg THEN "UPSTREAM_TIMEOUT"
    ELSE "UPSTREAM_ERROR"

\* except OpenRouterError as e (main.py:333-340): the code chosen from the
\* lowercased message, kept here as the set of keywords it contains.
ClassifyOpenRouterError(msg) ==
    IF "timeout" \in msg THEN "UPSTREAM_TIMEOUT"
    ELSE IF "rate" \in msg \/ "429" \in msg THEN "RATE_LIMIT"
    ELSE "UPSTREAM_ERROR"

ALLOWED_CONTENT_TYPES == {"image/jpeg", "image/png", "image/jpg"}

-----------------------------------------------------------------------------
(* app/food_gate.py *)

\* What the upstream does with one POST.  kind:
\*   "timeout"        httpx.TimeoutException
\*   "request_error"  another httpx.RequestError (text: what str(e) contains)
\*   "status"         a response with a status other than 200 (text: its body)
\*   "bad_json"       status 200, response.json() raises
\*   "non_dict"       status 200, the JSON root is not an object
\*   "missing_fields" status 200, no choices[0].message.content
\*   "content"        status 200 and a completion text; root / is_food /
\*                    confidence / reason describe what json_repair makes of it
Reply(kind, status, text, root, is_food, confidence, reason) ==
    [ kind |-> kind, status |-> status, text |-> text, root |-> root,
      is_food |-> is_food, confidence |-> confidence, reason |-> reason ]

Absent == [ t |-> "absent", v |-> 0 ]
Num(n) == [ t |-> "num", v |-> n ]
NonNumeric == [ t |-> "nonnumeric", v |-> 0 ]

\* keywords a body or an exception text may contain
TextKw == { {}, {"timeout"}, {"rate"} }

\* statuses other than 200 the gate may get
GateStatuses == {401, 429, 500}

\* raw "confidence" values of a gate answer, in hundredths
RawConfidences == { Absent, NonNumeric, Num(-50), Num(5), Num(50), Num(90), Num(150) }

\* raw "is_food" values: JSON true, JSON false, key absent, a non-empty string
RawIsFood == { "true", "false", "absent", "string" }

NoReply == Reply("-", 0, {}, "-", "absent", Absent, "absent")

GateReplies ==
    { Reply("timeout", 0, {}, "-", "absent", Absent, "absent") }
    \cup { Reply("request_error", 0, t, "-", "absent", Absent, "absent") : t \in TextKw }
    \cup { Reply("status", st, t, "-", "absent", Absent, "absent") :
             st \in GateStatuses, t \in TextKw }
    \cup { Reply(k, 200, {}, "-", "absent", Absent, "absent") :
             k \in {"bad_json", "non_dict", "missing_fields"} }
    \cup { Reply("content", 200, {}, root, "absent", Absent, "absent") :
             root \in {"array", "string"} }
    \cup { Reply("content", 200, {}, "object", f, c, rs) :
             f \in RawIsFood, c \in RawConfidences, rs \in {"absent", "given"} }

\* Mutant of Truthy: data["is_food"] without the False default, a missing key
\* counted as true.
Truthy_AbsentIsTrue(raw) == raw # "false"

\* bool(data.get("is_food", False))
Truthy(raw) == raw \in {"true", "string"}

\* Mutant of Clamp: only the upper end is clamped.
Clamp_UpperOnly(c) == IF c > 100 THEN 100 ELSE c

\* max(0.0, min(1.0, confidence))
Clamp(c) == IF c > 100 THEN 100 ELSE IF c < 0 THEN 0 ELSE c

InvalidGateResult == GateResult("None", FALSE, 0, "invalid_gate_response")

\* Mutant of parse_gate_response: an object whose confidence float() rejects
\* is read with the default confidence 0.0 instead of being invalid.
parse_gate_response_DefaultOnBadConfidence(content) ==
    IF content.root # "object"
    THEN InvalidGateResult
    ELSE GateResult(
            IF Truthy(content.is_food) THEN "True" ELSE "False",
            TRUE,
            Clamp(IF content.confidence.t = "num" THEN content.confidence.v
                  ELSE 0),
            IF content.reason = "absent" THEN "unknown" ELSE content.reason)

\* Mutant of parse_gate_response: a missing "confidence" key gives a
\* GateResult without a confidence.
parse_gate_response_NoDefaultConfidence(content) ==
    IF content.root # "object"
    THEN InvalidGateResult
    ELSE IF content.confidence.t = "nonnumeric"
    THEN InvalidGateResult
    ELSE IF content.confidence.t = "absent"
    THEN GateResult(IF Truthy(content.is_food) THEN "True" ELSE "False",
                    FALSE, 0,
                    IF content.reason = "absent" THEN "unknown" ELSE content.reason)
    ELSE GateResult(
            IF Truthy(content.is_food) THEN "True" ELSE "False",
            TRUE,
            Clamp(content.confidence.v),
            IF content.reason = "absent" THEN "unknown" ELSE content.reason)

\* parse_gate_response(response_text), on what json_repair returns for the text
parse_gate_response(content) ==
    IF content.root # "object"
    THEN InvalidGateResult
    ELSE IF content.confidence.t = "nonnumeric"
    THEN InvalidGateResult      \* float() raises, caught by except Exception
    ELSE GateResult(
            IF Truthy(content.is_food) THEN "True" ELSE "False",
            TRUE,
            Clamp(IF content.confidence.t = "absent" THEN 0
                  ELSE content.confidence.v),
            IF content.reason = "absent" THEN "unknown" ELSE content.reason)

StatusKw(status) == IF status = 429 THEN {"429"} ELSE {}

\* an OpenRouterError: the fixed part of its message (text) and the keywords
\* the whole message contains (msg)
Raised(text, msg) ==
    [ raised |-> TRUE, text |-> text, msg |-> msg, result |-> NoGateResult ]
Returned(g) == [ raised |-> FALSE, text |-> "-", msg |-> {}, result |-> g ]

\* Mutant of check_food_gate: a status other than 200 and 429 is answered
\* with the invalid-answer GateResult instead of an exception.
check_food_gate_Non200AsInvalid(reply) ==
    CASE reply.kind = "timeout" -> Raised("Gate timeout", {"timeout"})
      [] reply.kind = "request_error" -> Raised("Gate network error", reply.text)
      [] reply.kind = "status" /\ reply.status = 429 ->
            Raised("Gate rate limited (429)", {"rate", "429"})
      [] reply.kind = "status" /\ reply.status # 429 ->
            Returned(InvalidGateResult)
      [] reply.kind = "bad_json" -> Raised("Gate internal error", {})
      [] reply.kind = "non_dict" ->
            Raised("Gate API returned non-dict response", {})
      [] reply.kind = "missing_fields" ->
            Raised("Gate API response missing expected fields", {})
      [] OTHER -> Returned(parse_gate_response(reply))

\* check_food_gate from the answer of its single client.post on: either a
\* GateResult, or OpenRouterError with a message
check_food_gate(reply) ==
    CASE reply.kind = "timeout" -> Raised("Gate timeout", {"timeout"})
      [] reply.kind = "request_error" -> Raised("Gate network error", reply.text)
      [] reply.kind = "status" /\ reply.status = 429 ->
            Raised("Gate rate limited (429)", {"rate", "429"})
      [] reply.kind = "status" /\ reply.status # 429 ->
            Raised("Gate API error", StatusKw(reply.status) \cup reply.text)
      [] reply.kind = "bad_json" -> Raised("Gate internal error", {})
      [] reply.kind = "non_dict" ->
            Raised("Gate API returned non-dict response", {})
      [] reply.kind = "missing_fields" ->
            Raised("Gate API response missing expected fields", {})
      [] OTHER -> Returned(parse_gate_response(reply))

-----------------------------------------------------------------------------
(* app/schemas.py and app/openrouter_client.py: the recognition answer and  *)
(* its coercion (normalize_item_fields, parse_ai_response)                  *)

\* longest item list of a recognition answer
MaxItems == 2

\* FoodItem (schemas.py:6-12); the numbers are floats without constraints
FoodItem(name, grams, kcal, protein, fat, carbohydrates) ==
    [ name |-> name, grams |-> grams, kcal |-> kcal, protein |-> protein,
      fat |-> fat, carbohydrates |-> carbohydrates ]

\* TotalNutrition (schemas.py:32-36)
TotalNutrition(kcal, protein, fat, carbohydrates) ==
    [ kcal |-> kcal, protein |-> protein, fat |-> fat,
      carbohydrates |-> carbohydrates ]

NoTotal == TotalNutrition(0, 0, 0, 0)

\* a JSON string value
Str == [ t |-> "str", v |-> 0 ]

\* the JSON string ""
EmptyStr == [ t |-> "empty_str", v |-> 0 ]

\* One element of the "items" list as json_repair returns it.  obj: the
\* element is a JSON object; each key is Absent (not in the dict), Str,
\* EmptyStr, Num(n) (a number, or a string float() accepts) or NonNumeric (a
\* value float() rejects: null, a word, a list).
BaseItem ==
    [ obj |-> TRUE, name |-> Str, grams |-> Num(100), kcal |-> Num(200),
      protein |-> Num(10), fat |-> Num(5), carbohydrates |-> Num(20),
      carbs |-> Absent, calories |-> Absent, amount_grams |-> Absent ]

\* a list element that is not an object (a number, a string)
NotAnObject ==
    [ obj |-> FALSE, name |-> Absent, grams |-> Absent, kcal |-> Absent,
      protein |-> Absent, fat |-> Absent, carbohydrates |-> Absent,
      carbs |-> Absent, calories |-> Absent, amount_grams |-> Absent ]

\* alternative key names an answer may use, each with the schema key it
\* stands for: <<schema key, alternative key>>
AnswerAliases ==
    { <<"carbohydrates", "carbs">>, <<"kcal", "calories">>,
      <<"grams", "amount_grams">> }

\* the value an alternative key carries; differs from every value of BaseItem
AliasValue == Num(30)

RawItems ==
    { BaseItem, [BaseItem EXCEPT !.kcal = Num(250)], NotAnObject,
      [BaseItem EXCEPT !.kcal = NonNumeric] }
    \cup { [BaseItem EXCEPT ![p[1]] = Absent, ![p[2]] = AliasValue] :
             p \in AnswerAliases }
    \cup { [BaseItem EXCEPT ![p[2]] = AliasValue] : p \in AnswerAliases }
    \cup { [BaseItem EXCEPT ![f] = Absent] : f \in {"name", "carbohydrates"} }
    \cup { [BaseItem EXCEPT !.name = EmptyStr], [BaseItem EXCEPT !.fat = Num(-5)] }

ItemLists == UNION { [1 .. n -> RawItems] : n \in 0 .. MaxItems }

\* The completion text of a recognition answer, as what json_repair makes of
\* it.  root: the kind of the JSON root; items_kind: the "items" key is absent,
\* a list, null or a non-empty string; total: the "total" key the model may
\* add; notes: the "model_notes" key.
Content(root, items_kind, items, total, notes) ==
    [ root |-> root, items_kind |-> items_kind, items |-> items,
      total |-> total, notes |-> notes ]

NoContent == Content("-", "absent", <<>>, Absent, "absent")

Contents ==
    { Content(root, "absent", <<>>, Absent, "absent") : root \in {"array", "string"} }
    \cup { Content("object", k, <<>>, Absent, "absent") :
             k \in {"absent", "null", "string"} }
    \cup { Content("object", "list", l, x[1], x[2]) :
             l \in ItemLists,
             x \in { <<Absent, "absent">>, <<Num(999), "given">> } }

\* Mutant of normalize_item_fields: the "calories" key is not normalized.
normalize_item_fields_NoCalories(item) ==
    IF item.carbs.t # "absent" /\ item.carbohydrates.t = "absent"
    THEN [item EXCEPT !.carbohydrates = item.carbs, !.carbs = Absent]
    ELSE item

\* Mutant of normalize_item_fields: an alternative key overrides the schema
\* key when both are present.
normalize_item_fields_AliasWins(item) ==
    LET a == IF item.carbs.t # "absent"
             THEN [item EXCEPT !.carbohydrates = item.carbs, !.carbs = Absent]
             ELSE item
    IN  IF a.calories.t # "absent"
        THEN [a EXCEPT !.kcal = a.calories, !.calories = Absent]
        ELSE a

\* normalize_item_fields(item) (openrouter_client.py:268-292): "carbs" and
\* "calories" are moved to "carbohydrates" and "kcal" when those are not in
\* the dict; no other key is touched
normalize_item_fields(item) ==
    LET a == IF item.carbs.t # "absent" /\ item.carbohydrates.t = "absent"
             THEN [item EXCEPT !.carbohydrates = item.carbs, !.carbs = Absent]
             ELSE item
    IN  IF a.calories.t # "absent" /\ a.kcal.t = "absent"
        THEN [a EXCEPT !.kcal = a.calories, !.calories = Absent]
        ELSE a

\* the keyword arguments of FoodItem(...) in the order Python evaluates them
RequiredFields == <<"name", "grams", "kcal", "protein", "fat", "carbohydrates">>

Coerced(kind, field, item) == [ kind |-> kind, field |-> field, item |-> item ]

\* One pass of the loop body of parse_ai_response (openrouter_client.py:
\* 333-344): the FoodItem, or the first exception: AttributeError (the element
\* has no .copy), KeyError (a key is not in the dict), ValueError (float()
\* rejects the value; TypeError goes to the same except clause)
CoerceItem(item_data) ==
    IF ~item_data.obj
    THEN Coerced("AttributeError", "-", FoodItem("-", 0, 0, 0, 0, 0))
    ELSE LET n == normalize_item_fields(item_data)
             bad == { i \in 1 .. Len(RequiredFields) :
                      \/ n[RequiredFields[i]].t = "absent"
                      \/ n[RequiredFields[i]].t = "nonnumeric" }
         IN  IF bad = {}
             THEN Coerced("ok", "-",
                          FoodItem(IF n.name = EmptyStr THEN "" ELSE "name",
                                   n.grams.v, n.kcal.v, n.protein.v,
                                   n.fat.v, n.carbohydrates.v))
             ELSE LET i == CHOOSE j \in bad : \A k \in bad : j <= k
                      f == RequiredFields[i]
                  IN  Coerced(IF n[f].t = "absent" THEN "KeyError"
                              ELSE "ValueError",
                              f, FoodItem("-", 0, 0, 0, 0, 0))

\* the keywords the name of a key contains: "carbohydrates" contains "rate"
FieldKw(f) == IF f = "carbohydrates" THEN {"rate"} ELSE {}

\* what parse_ai_response does: kind "ok" with the items and model_notes, kind
\* "OpenRouterError" with the message, or the class of another exception
Parsed(kind, items, notes, text, msg) ==
    [ kind |-> kind, items |-> items, notes |-> notes, text |-> text, msg |-> msg ]

RECURSIVE ParseItems(_, _, _)
\* the for loop of parse_ai_response over the elements not yet coerced
ParseItems(rest, done, notes) ==
    IF rest = <<>>
    THEN Parsed("ok", done, notes, "-", {})
    ELSE LET c == CoerceItem(Head(rest))
         IN  CASE c.kind = "ok" -> ParseItems(Tail(rest), Append(done, c.item), notes)
               [] c.kind = "KeyError" ->
                    Parsed("OpenRouterError", <<>>, "-",
                           "Missing required field in AI response", FieldKw(c.field))
               [] c.kind = "ValueError" ->
                    Parsed("OpenRouterError", <<>>, "-",
                           "Invalid data type in AI response", {})
               [] OTHER -> Parsed(c.kind, <<>>, "-", "-", {})

\* A completion text is the sequence of its parts around the separator
\* "___JSON___": <<c>> for a text without the separator, <<p, c>> for a
\* preamble p, the separator and a rest c.  Each part is described by what
\* json_repair returns for it.  Texts with a second separator are not drawn.

\* Mutant of JsonText: the part before the separator is taken.
JsonText_BeforeMarker(response_text) == response_text[1]

\* json_text of parse_ai_response (openrouter_client.py:313-322):
\* response_text.split("___JSON___", 1)[1] when the separator is in the text,
\* the whole text otherwise
JsonText(response_text) ==
    IF Len(response_text) > 1 THEN response_text[2] ELSE response_text[1]

\* parse_ai_response(response_text) (openrouter_client.py:311-355); content is
\* what json_repair returns for json_text.  A root without .get and a string
\* under "items" raise AttributeError, which no except clause of the function
\* catches; iterating null raises TypeError.
parse_ai_response(response_text) ==
    LET content == JsonText(response_text)
    IN  IF content.root # "object"
        THEN Parsed("AttributeError", <<>>, "-", "-", {})
        ELSE LET notes == IF content.notes = "absent" THEN "None" ELSE content.notes
             IN  CASE content.items_kind = "absent" -> Parsed("ok", <<>>, notes, "-", {})
                   [] content.items_kind = "null" ->
                        Parsed("OpenRouterError", <<>>, "-",
                               "Invalid data type in AI response", {})
                   [] content.items_kind = "string" ->
                        Parsed("AttributeError", <<>>, "-", "-", {})
                   [] OTHER -> ParseItems(content.items, <<>>, notes)

RECURSIVE SumField(_, _)
\* sum(item.<f> for item in items)
SumField(items, f) ==
    IF items = <<>> THEN 0 ELSE Head(items)[f] + SumField(Tail(items), f)

\* Mutant of Totals: only the first item is counted.
Totals_FirstItemOnly(items) ==
    IF items = <<>> THEN NoTotal
    ELSE TotalNutrition(items[1].kcal, items[1].protein, items[1].fat,
                        items[1].carbohydrates)

\* "Calculate totals" (openrouter_client.py:543-548)
Totals(items) ==
    TotalNutrition(SumField(items, "kcal"), SumField(items, "protein"),
                   SumField(items, "fat"), SumField(items, "carbohydrates"))

\* Mutant of validate_recognition_result: an empty item list is accepted.
validate_recognition_result_AcceptsEmpty(items, total) == TRUE

\* validate_recognition_result(items, total) (main.py:179-192); the total the
\* stage returns is a TotalNutrition of finite sums, never None
validate_recognition_result(items, total) ==
    IF items = <<>> THEN FALSE ELSE TRUE

\* The 200 answer of a recognition call.  kind:
\*   "bad_json"       response.json() raises
\*   "non_dict"       the JSON root has no .get
\*   "missing_fields" no choices[0].message.content (KeyError)
\*   "content"        a completion text
RecogBody(kind, text) == [ kind |-> kind, text |-> text ]

NoBody == RecogBody("-", <<NoContent>>)

\* what the model wrote before the separator: prose, or prose that itself
\* holds a JSON object with an item of 250 kcal and notes
Preambles ==
    { Content("string", "absent", <<>>, Absent, "absent"),
      Content("object", "list", <<[BaseItem EXCEPT !.kcal = Num(250)]>>,
              Num(999), "given") }

\* the answers drawn after a separator: those of at most one item
MarkedContents == { c \in Contents : Len(c.items) <= 1 }

RecogBodies ==
    { RecogBody(k, <<NoContent>>) : k \in {"bad_json", "non_dict", "missing_fields"} }
    \cup { RecogBody("content", <<c>>) : c \in Contents }
    \cup { RecogBody("content", <<p, c>>) : p \in Preambles, c \in MarkedContents }

\* no call of recognize_food_with_bytes
NoRecognition ==
    [ pc |-> "off", body |-> NoBody, parse |-> "-", items |-> <<>>,
      total |-> NoTotal, notes |-> "-", text |-> "-", msg |-> {},
      valid |-> FALSE, low |-> FALSE, handled |-> FALSE,
      resp |-> NoResponse, exc |-> "-", clause |-> "-" ]

-----------------------------------------------------------------------------
(* app/main.py: recognize_food and request_id_middleware *)

ContentTypes == {"image/jpeg", "text/plain"}

\* what the upstream would answer a recognition call for this upload
RecogPlans == {"two_items_450", "zero_items"}

\* X-Trace-Id headers a caller may send; "" is no header
TraceHeaders == {"", "caller-trace"}

Uploads ==
    [ content_type : ContentTypes,
      readable     : BOOLEAN,
      size         : 0 .. MaxImageSize + 1,
      trace_header : TraceHeaders,
      recog_plan   : RecogPlans ]

NoUpload ==
    [ content_type |-> "-", readable |-> FALSE, size |-> 0,
      trace_header |-> "", recog_plan |-> "-" ]

\* uuid.uuid4().hex: a fresh id, distinct per request
FreshId(r) == "uuid-" \o r

Outcome(kind, code, low) == [ kind |-> kind, code |-> code, low |-> low ]

\* Mutant of GateDecision: an unparseable gate answer (is_food None) is
\* treated as "not food".
GateDecision_NoneAsNotFood(s, g) ==
    LET confidence == IF g.has_confidence THEN g.confidence ELSE 0
    IN  IF g.is_food \in {"None", "False"}
        THEN Outcome("error", "UNSUPPORTED_CONTENT", FALSE)
        ELSE IF ~HasAttr(s, "food_gate_min_threshold")
        THEN Outcome("raise", "AttributeError", FALSE)
        ELSE IF confidence < s["food_gate_min_threshold"]
        THEN Outcome("error", "UNSUPPORTED_CONTENT", FALSE)
        ELSE IF ~HasAttr(s, "food_gate_med_threshold")
        THEN Outcome("raise", "AttributeError", FALSE)
        ELSE Outcome("recognize", "-",
                     confidence < s["food_gate_med_threshold"])

\* Mutant of GateDecision: a gate result with is_food false goes on to the
\* recognition call.
GateDecision_RecognizeWhenNotFood(s, g) ==
    IF g.is_food = "None"
    THEN Outcome("error", "GATE_ERROR", FALSE)
    ELSE LET confidence == IF g.has_confidence THEN g.confidence ELSE 0
         IN  IF g.is_food = "False"
             THEN Outcome("recognize", "-", FALSE)
             ELSE IF ~HasAttr(s, "food_gate_min_threshold")
             THEN Outcome("raise", "AttributeError", FALSE)
             ELSE IF confidence < s["food_gate_min_threshold"]
             THEN Outcome("error", "UNSUPPORTED_CONTENT", FALSE)
             ELSE IF ~HasAttr(s, "food_gate_med_threshold")
             THEN Outcome("raise", "AttributeError", FALSE)
             ELSE Outcome("recognize", "-",
                          confidence < s["food_gate_med_threshold"])

\* main.py:279-313 on the GateResult g under settings s: answer with an error
\* code, raise (an exception that is not OpenRouterError), or go on to the
\* recognition call with is_low_confidence_zone = low
GateDecision(s, g) ==
    IF g.is_food = "None"
    THEN Outcome("error", "GATE_ERROR", FALSE)
    ELSE LET confidence == IF g.has_confidence THEN g.confidence ELSE 0
         IN  IF g.is_food = "False"     \* `not gate_result.is_food or ...`
             THEN Outcome("error", "UNSUPPORTED_CONTENT", FALSE)
             ELSE IF ~HasAttr(s, "food_gate_min_threshold")
             THEN Outcome("raise", "AttributeError", FALSE)
             ELSE IF confidence < s["food_gate_min_threshold"]
             THEN Outcome("error", "UNSUPPORTED_CONTENT", FALSE)
             ELSE IF ~HasAttr(s, "food_gate_med_threshold")
             THEN Outcome("raise", "AttributeError", FALSE)
             ELSE Outcome("recognize", "-",
                          confidence < s["food_gate_med_threshold"])

\* Mutant of ValidationError: the empty-file check is missing.
ValidationError_NoEmptyCheck(s, u) ==
    IF u.content_type \notin ALLOWED_CONTENT_TYPES THEN "UNSUPPORTED_IMAGE_FORMAT"
    ELSE IF ~u.readable THEN "INVALID_IMAGE"
    ELSE IF u.size > s.max_image_size_bytes THEN "IMAGE_TOO_LARGE"
    ELSE ""

\* Mutant of ValidationError: a file of exactly the maximum size is too large.
ValidationError_SizeInclusive(s, u) ==
    IF u.content_type \notin ALLOWED_CONTENT_TYPES THEN "UNSUPPORTED_IMAGE_FORMAT"
    ELSE IF ~u.readable THEN "INVALID_IMAGE"
    ELSE IF u.size = 0 THEN "INVALID_IMAGE"
    ELSE IF u.size >= s.max_image_size_bytes THEN "IMAGE_TOO_LARGE"
    ELSE ""

\* main.py:225-258: the code of the validation error, "" when the upload passes
ValidationError(s, u) ==
    IF u.content_type \notin ALLOWED_CONTENT_TYPES THEN "UNSUPPORTED_IMAGE_FORMAT"
    ELSE IF ~u.readable THEN "INVALID_IMAGE"
    ELSE IF u.size = 0 THEN "INVALID_IMAGE"
    ELSE IF u.size > s.max_image_size_bytes THEN "IMAGE_TOO_LARGE"
    ELSE ""

\* the custom_message the handler passes for that error ("Пустой файл.")
ValidationMessage(u) ==
    IF u.content_type \in ALLOWED_CONTENT_TYPES /\ u.readable /\ u.size = 0
    THEN "Empty file." ELSE ""

\* check_food_gate raised nothing (yet)
NoGateError == [ raised |-> FALSE, text |-> "-", msg |-> {} ]

NoClient ==
    [ pc |-> "off", attempt |-> 0, posts |-> 0, sleeps |-> <<>>,
      outcomes |-> <<>>, last_exception |-> "-", result |-> "-", status |-> 0 ]

\* the service after start-up: no request received yet
InitHandler ==
    /\ settings \in { SettingsOf(c) : c \in BOOLEAN }
    /\ pc = [r \in Requests |-> "idle"]
    /\ req = [r \in Requests |-> NoUpload]
    /\ request_id_ctx = [r \in Requests |-> ""]
    /\ trace_id = [r \in Requests |-> ""]
    /\ gate_reply = [r \in Requests |-> NoReply]
    /\ gate_result = [r \in Requests |-> NoGateResult]
    /\ gate_error = [r \in Requests |-> NoGateError]
    /\ gate_calls = [r \in Requests |-> 0]
    /\ recog_calls = [r \in Requests |-> 0]
    /\ resp = [r \in Requests |-> NoResponse]

Init ==
    /\ InitHandler
    /\ cl = NoClient
    /\ rg = NoRecognition

\* Mutant of ArriveFrom: the trace id is kept in a module-level variable, not
\* a ContextVar, so an arriving request overwrites it for every request.
ArriveFrom_SharedContext(r, uploads) ==
    /\ pc[r] = "idle"
    /\ \E u \in uploads :
         /\ req' = [req EXCEPT ![r] = u]
         /\ request_id_ctx' = [q \in Requests |->
                IF u.trace_header # "" THEN u.trace_header ELSE FreshId(r)]
    /\ pc' = [pc EXCEPT ![r] = "handler"]
    /\ UNCHANGED <<settings, trace_id, gate_reply, gate_result, gate_error,
                   gate_calls, recog_calls, resp, cl, rg>>

\* request_id_middleware up to `await call_next(request)` (main.py:100-122),
\* for a request drawn from the set uploads
ArriveFrom(r, uploads) ==
    /\ pc[r] = "idle"
    /\ \E u \in uploads :
         /\ req' = [req EXCEPT ![r] = u]
         /\ request_id_ctx' = [request_id_ctx EXCEPT ![r] =
                IF u.trace_header # "" THEN u.trace_header ELSE FreshId(r)]
    /\ pc' = [pc EXCEPT ![r] = "handler"]
    /\ UNCHANGED <<settings, trace_id, gate_reply, gate_result, gate_error,
                   gate_calls, recog_calls, resp, cl, rg>>

\* a request arrives
Arrive(r) == ArriveFrom(r, Uploads)

\* Mutant of Validate: the gate's POST blocks the event loop, so no other
\* handler runs while a gate call is in flight.
Validate_WaitsForOtherGate(r) ==
    /\ pc[r] = "handler"
    /\ \A q \in Requests \ {r} : pc[q] # "gate_pending"
    /\ trace_id' = [trace_id EXCEPT ![r] = request_id_ctx[r]]
    /\ LET code == ValidationError(settings, req[r])
       IN  IF code # ""
           THEN /\ resp' = [resp EXCEPT ![r] =
                      ErrorReturn(settings, code, request_id_ctx[r],
                                  ValidationMessage(req[r]))]
                /\ pc' = [pc EXCEPT ![r] = "responded"]
                /\ UNCHANGED gate_calls
           ELSE /\ gate_calls' = [gate_calls EXCEPT ![r] = @ + 1]
                /\ pc' = [pc EXCEPT ![r] = "gate_pending"]
                /\ UNCHANGED resp
    /\ UNCHANGED <<settings, req, request_id_ctx, gate_reply, gate_result,
                   gate_error, recog_calls, cl, rg>>

\* recognize_food from its start to the gate's client.post (main.py:219-269,
\* food_gate.py:114-156), or to the return of a validation error
Validate(r) ==
    /\ pc[r] = "handler"
    /\ trace_id' = [trace_id EXCEPT ![r] = request_id_ctx[r]]
    /\ LET code == ValidationError(settings, req[r])
       IN  IF code # ""
           THEN /\ resp' = [resp EXCEPT ![r] =
                      ErrorReturn(settings, code, request_id_ctx[r],
                                  ValidationMessage(req[r]))]
                /\ pc' = [pc EXCEPT ![r] = "responded"]
                /\ UNCHANGED gate_calls
           ELSE /\ gate_calls' = [gate_calls EXCEPT ![r] = @ + 1]
                /\ pc' = [pc EXCEPT ![r] = "gate_pending"]
                /\ UNCHANGED resp
    /\ UNCHANGED <<settings, req, request_id_ctx, gate_reply, gate_result,
                   gate_error, recog_calls, cl, rg>>

\* The gate's POST completes with `reply`: the rest of check_food_gate
\* (food_gate.py:158-196) and recognize_food from the gate result to its next
\* await or its return (main.py:271-348, 403-411).  The last branch is the
\* call of recognize_food_with_bytes at main.py:326; GateDecision never
\* selects it under the Settings of config.py (RecognitionNeverIssued below),
\* so the handler's lines after that call (main.py:350-401) are run by no
\* request.
GateFinish(r, reply) ==
    LET out == check_food_gate(reply)
        d   == GateDecision(settings, out.result)
    IN  /\ gate_reply' = [gate_reply EXCEPT ![r] = reply]
        /\ gate_result' = [gate_result EXCEPT ![r] = out.result]
        /\ gate_error' = [gate_error EXCEPT ![r] =
               [ raised |-> out.raised, text |-> out.text, msg |-> out.msg ]]
        /\ IF out.raised
           THEN /\ resp' = [resp EXCEPT ![r] =
                      ErrorReturn(settings, ClassifyOpenRouterError(out.msg),
                                  trace_id[r], "")]
                /\ pc' = [pc EXCEPT ![r] = "responded"]
                /\ UNCHANGED recog_calls
           ELSE IF d.kind = "error"
           THEN /\ resp' = [resp EXCEPT ![r] =
                      ErrorReturn(settings, d.code, trace_id[r], "")]
                /\ pc' = [pc EXCEPT ![r] = "responded"]
                /\ UNCHANGED recog_calls
           ELSE IF d.kind = "raise"
           THEN /\ resp' = [resp EXCEPT ![r] = CatchAll(settings, trace_id[r])]
                /\ pc' = [pc EXCEPT ![r] = "responded"]
                /\ UNCHANGED recog_calls
           ELSE /\ recog_calls' = [recog_calls EXCEPT ![r] = @ + 1]
                /\ pc' = [pc EXCEPT ![r] = "recognition_pending"]
                /\ UNCHANGED resp
        /\ UNCHANGED <<settings, req, request_id_ctx, trace_id, gate_calls, cl, rg>>

\* Mutant of GateReply: the gate's POST goes through a retrying client, so a
\* retryable status or a transport error is followed by another POST while
\* fewer than 3 were made.
GateReply_Retrying(r) ==
    /\ pc[r] = "gate_pending"
    /\ \E reply \in GateReplies :
         IF /\ \/ reply.kind \in {"timeout", "request_error"}
               \/ reply.kind = "status" /\ reply.status \in {429, 500, 502, 503, 504}
            /\ gate_calls[r] < 3
         THEN /\ gate_calls' = [gate_calls EXCEPT ![r] = @ + 1]
              /\ UNCHANGED <<settings, pc, req, request_id_ctx, trace_id,
                             gate_reply, gate_result, gate_error, recog_calls,
                             resp, cl, rg>>
         ELSE GateFinish(r, reply)

\* the single client.post of check_food_gate (food_gate.py:151-156) completes,
\* with whatever the upstream does
GateReply(r) ==
    /\ pc[r] = "gate_pending"
    /\ \E reply \in GateReplies : GateFinish(r, reply)

\* the same, with the upstream's answer drawn from the set replies
GateReplyFrom(r, replies) ==
    /\ pc[r] = "gate_pending"
    /\ \E reply \in replies : GateFinish(r, reply)

\* Mutant of Finish: the context variable is reset before the header is set
\* from it.
Finish_HeaderAfterReset(r) ==
    /\ pc[r] = "responded"
    /\ resp' = [resp EXCEPT ![r].header_trace_id = ""]
    /\ request_id_ctx' = [request_id_ctx EXCEPT ![r] = ""]
    /\ pc' = [pc EXCEPT ![r] = "done"]
    /\ UNCHANGED <<settings, req, trace_id, gate_reply, gate_result,
                   gate_error, gate_calls, recog_calls, cl, rg>>

\* Mutant of Finish: the trace id is kept in one variable shared by all
\* requests, so the reset clears it for every request.
Finish_ResetsEveryContext(r) ==
    /\ pc[r] = "responded"
    /\ resp' = [resp EXCEPT ![r].header_trace_id = request_id_ctx[r]]
    /\ request_id_ctx' = [q \in Requests |-> ""]
    /\ pc' = [pc EXCEPT ![r] = "done"]
    /\ UNCHANGED <<settings, req, trace_id, gate_reply, gate_result,
                   gate_error, gate_calls, recog_calls, cl, rg>>

\* request_id_middleware after call_next returned (main.py:124-140): the
\* header is set and the context variable reset
Finish(r) ==
    /\ pc[r] = "responded"
    /\ resp' = [resp EXCEPT ![r].header_trace_id = request_id_ctx[r]]
    /\ request_id_ctx' = [request_id_ctx EXCEPT ![r] = ""]
    /\ pc' = [pc EXCEPT ![r] = "done"]
    /\ UNCHANGED <<settings, req, trace_id, gate_reply, gate_result,
                   gate_error, gate_calls, recog_calls, cl, rg>>

\* a step of request r
Step(r) == Arrive(r) \/ Validate(r) \/ GateReply(r) \/ Finish(r)

\* one request is sent to the service
Next == Step("r1")

Spec == Init /\ [][Next]_vars

-----------------------------------------------------------------------------
(* app/openrouter_client.py: _make_openrouter_request *)

RETRY_MAX_ATTEMPTS == 3
RETRY_INITIAL_DELAY == 1
RETRY_MAX_DELAY == 10
RETRY_BACKOFF_MULTIPLIER == 2
RETRYABLE_STATUS_CODES == {429, 500, 502, 503, 504}
NON_RETRYABLE_STATUS_CODES == {400, 401, 403, 413, 422}

\* statuses in neither set that the upstream may answer
OtherStatuses == {200, 404}

\* what one client.post may do: a response with a status, or an exception
ClientOutcomes ==
    { [ kind |-> "status", status |-> st ] :
        st \in RETRYABLE_STATUS_CODES \cup NON_RETRYABLE_STATUS_CODES
               \cup OtherStatuses }
    \cup { [ kind |-> k, status |-> 0 ] : k \in {"timeout", "request_error"} }

RECURSIVE Pow(_, _)
Pow(b, n) == IF n = 0 THEN 1 ELSE b * Pow(b, n - 1)

\* Mutant of BackoffDelay: the exponent is the attempt number, not attempt - 1.
BackoffDelay_ExponentIsAttempt(attempt) ==
    LET d == RETRY_INITIAL_DELAY * Pow(RETRY_BACKOFF_MULTIPLIER, attempt)
    IN  IF d < RETRY_MAX_DELAY THEN d ELSE RETRY_MAX_DELAY

\* min(RETRY_INITIAL_DELAY * RETRY_BACKOFF_MULTIPLIER ** (attempt - 1), RETRY_MAX_DELAY)
BackoffDelay(attempt) ==
    LET d == RETRY_INITIAL_DELAY * Pow(RETRY_BACKOFF_MULTIPLIER, attempt - 1)
    IN  IF d < RETRY_MAX_DELAY THEN d ELSE RETRY_MAX_DELAY

\* Mutant of MayRetry: off by one, the last attempt is followed by a sleep.
MayRetry_OffByOne(attempt) == attempt <= RETRY_MAX_ATTEMPTS

\* `if attempt < RETRY_MAX_ATTEMPTS`: this attempt is followed by a sleep and
\* another one
MayRetry(attempt) == attempt < RETRY_MAX_ATTEMPTS

\* Mutant of IsRetryableStatus: every error status is retried.
IsRetryableStatus_AnyError(status) == status >= 400

\* Mutant of IsRetryableStatus: every status but 200 and the listed
\* non-retryable ones is retried.
IsRetryableStatus_UnlistedToo(status) ==
    status # 200 /\ status \notin NON_RETRYABLE_STATUS_CODES

\* `if response.status_code in RETRYABLE_STATUS_CODES`
IsRetryableStatus(status) == status \in RETRYABLE_STATUS_CODES

\* an exception object: its class and the attempt that raised it
Exc(kind, attempt) == kind \o "@" \o ToString(attempt)

\* the call starts: last_exception = None, the loop's first attempt
ClientStart ==
    [ pc |-> "ready", attempt |-> 1, posts |-> 0, sleeps |-> <<>>,
      outcomes |-> <<>>, last_exception |-> "-", result |-> "-", status |-> 0 ]

\* client.post is awaited
ClientPost ==
    /\ cl.pc = "ready"
    /\ cl' = [cl EXCEPT !.pc = "posting", !.posts = @ + 1]
    /\ UNCHANGED <<handlerVars, rg>>

\* `continue` after the sleep: the for loop takes its next attempt, or ends
\* and falls through to the lines after it (openrouter_client.py:437-440)
LoopNext(c) ==
    IF c.attempt + 1 <= RETRY_MAX_ATTEMPTS
    THEN [c EXCEPT !.pc = "ready", !.attempt = @ + 1]
    ELSE IF c.last_exception # "-"
    THEN [c EXCEPT !.pc = "raised", !.result = c.last_exception]
    ELSE [c EXCEPT !.pc = "raised", !.result = "OpenRouterError:loop-exit"]

\* Mutant of AfterPost: a transport exception is raised at once, not retried.
AfterPost_NoRetryOnException(c, o) ==
    LET seen == [c EXCEPT !.outcomes = Append(@, o)]
    IN  IF o.kind = "status"
        THEN IF IsRetryableStatus(o.status) /\ MayRetry(c.attempt)
             THEN [seen EXCEPT !.pc = "sleeping",
                               !.sleeps = Append(@, BackoffDelay(c.attempt))]
             ELSE [seen EXCEPT !.pc = "returned", !.result = "response",
                               !.status = o.status]
        ELSE [seen EXCEPT !.pc = "raised",
                          !.last_exception = Exc(o.kind, c.attempt),
                          !.result = Exc(o.kind, c.attempt)]

\* Mutant of AfterPost: the status branch keeps a counter of its own and
\* sleeps after every retryable status, also on the last attempt.
AfterPost_StatusAlwaysSleeps(c, o) ==
    LET seen == [c EXCEPT !.outcomes = Append(@, o)]
    IN  IF o.kind = "status"
        THEN IF IsRetryableStatus(o.status)
             THEN [seen EXCEPT !.pc = "sleeping",
                               !.sleeps = Append(@, BackoffDelay(c.attempt))]
             ELSE [seen EXCEPT !.pc = "returned", !.result = "response",
                               !.status = o.status]
        ELSE LET e == Exc(o.kind, c.attempt)
             IN  IF MayRetry(c.attempt)
                 THEN [seen EXCEPT !.pc = "sleeping", !.last_exception = e,
                                   !.sleeps = Append(@, BackoffDelay(c.attempt))]
                 ELSE [seen EXCEPT !.pc = "raised", !.last_exception = e,
                                   !.result = e]

\* the loop body after the POST answered with outcome o on attempt c.attempt
\* (openrouter_client.py:373-435)
AfterPost(c, o) ==
    LET seen == [c EXCEPT !.outcomes = Append(@, o)]
    IN  IF o.kind = "status"
        THEN IF IsRetryableStatus(o.status) /\ MayRetry(c.attempt)
             THEN [seen EXCEPT !.pc = "sleeping",
                               !.sleeps = Append(@, BackoffDelay(c.attempt))]
             ELSE [seen EXCEPT !.pc = "returned", !.result = "response",
                               !.status = o.status]
        ELSE LET e == Exc(o.kind, c.attempt)
             IN  IF MayRetry(c.attempt)
                 THEN [seen EXCEPT !.pc = "sleeping", !.last_exception = e,
                                   !.sleeps = Append(@, BackoffDelay(c.attempt))]
                 ELSE [seen EXCEPT !.pc = "raised", !.last_exception = e,
                                   !.result = e]

\* the awaited POST completes, with a response or an exception
ClientReply ==
    /\ cl.pc = "posting"
    /\ \E o \in ClientOutcomes : cl' = AfterPost(cl, o)
    /\ UNCHANGED <<handlerVars, rg>>

\* the same, with the outcome drawn from the set outcomes
ClientReplyFrom(outcomes) ==
    /\ cl.pc = "posting"
    /\ \E o \in outcomes : cl' = AfterPost(cl, o)
    /\ UNCHANGED <<handlerVars, rg>>

\* asyncio.sleep(delay) returns
ClientWake ==
    /\ cl.pc = "sleeping"
    /\ cl' = LoopNext(cl)
    /\ UNCHANGED <<handlerVars, rg>>

InitClient ==
    /\ InitHandler
    /\ cl = ClientStart
    /\ rg = NoRecognition

NextClient == ClientPost \/ ClientReply \/ ClientWake

\* one direct call of _make_openrouter_request
SpecClient == InitClient /\ [][NextClient]_vars

\* the same call on a running event loop: the awaited POST ends (httpx gives
\* every request a timeout) and asyncio.sleep returns
SpecClientFair == SpecClient /\ WF_vars(NextClient)

-----------------------------------------------------------------------------
(* app/openrouter_client.py: recognize_food_with_bytes, and what           *)
(* recognize_food does with its outcome (main.py:333-374)                   *)

\* Mutant of recognize_food_with_bytes: the `except Exception` clause is
\* missing, an exception of parse_ai_response that is no OpenRouterError
\* leaves the stage as it is.
recognize_food_with_bytes_NoCatchAll(c, body, text) ==
    LET raise(t, m) ==
            [NoRecognition EXCEPT !.pc = "raised", !.body = body,
                                  !.exc = "OpenRouterError",
                                  !.text = t, !.msg = m]
    IN  IF c.pc = "raised"
        THEN IF c.result = "OpenRouterError:loop-exit"
             THEN raise("Unexpected retry loop exit", {})
             ELSE IF c.outcomes[Len(c.outcomes)].kind = "timeout"
             THEN raise("Request to OpenRouter API timed out", {})
             ELSE raise("Failed to connect to OpenRouter API", text)
        ELSE IF c.status # 200
        THEN raise("OpenRouter API returned", StatusKw(c.status) \cup text)
        ELSE CASE body.kind = "bad_json" -> raise("Unexpected error", {})
               [] body.kind = "non_dict" -> raise("Unexpected error", {})
               [] body.kind = "missing_fields" ->
                    raise("Unexpected response structure from OpenRouter", {})
               [] OTHER ->
                    LET p == parse_ai_response(body.text)
                    IN  CASE p.kind = "ok" ->
                               [NoRecognition EXCEPT
                                  !.pc = "returned", !.body = body,
                                  !.parse = "ok", !.items = p.items,
                                  !.total = Totals(p.items), !.notes = p.notes]
                          [] p.kind = "OpenRouterError" ->
                               [raise(p.text, p.msg) EXCEPT !.parse = p.kind]
                          [] OTHER ->
                               [raise("-", {}) EXCEPT !.parse = p.kind,
                                                      !.exc = p.kind]

\* recognize_food_with_bytes after _make_openrouter_request ended as c
\* (openrouter_client.py:508-566).  body: the 200 answer; text: the keywords
\* in the body of another status, or in str(e) of a connection error.
recognize_food_with_bytes(c, body, text) ==
    LET raise(t, m) ==
            [NoRecognition EXCEPT !.pc = "raised", !.body = body,
                                  !.exc = "OpenRouterError",
                                  !.text = t, !.msg = m]
    IN  IF c.pc = "raised"
        THEN IF c.result = "OpenRouterError:loop-exit"
             THEN raise("Unexpected retry loop exit", {})
             ELSE IF c.outcomes[Len(c.outcomes)].kind = "timeout"
             THEN raise("Request to OpenRouter API timed out", {})
             ELSE raise("Failed to connect to OpenRouter API", text)
        ELSE IF c.status # 200
        THEN raise("OpenRouter API returned", StatusKw(c.status) \cup text)
        ELSE CASE body.kind = "bad_json" -> raise("Unexpected error", {})
               [] body.kind = "non_dict" -> raise("Unexpected error", {})
               [] body.kind = "missing_fields" ->
                    raise("Unexpected response structure from OpenRouter", {})
               [] OTHER ->
                    LET p == parse_ai_response(body.text)
                    IN  CASE p.kind = "ok" ->
                               [NoRecognition EXCEPT
                                  !.pc = "returned", !.body = body,
                                  !.parse = "ok", !.items = p.items,
                                  !.total = Totals(p.items), !.notes = p.notes]
                          [] p.kind = "OpenRouterError" ->
                               [raise(p.text, p.msg) EXCEPT !.parse = p.kind]
                          [] OTHER ->       \* except Exception
                               [raise("Unexpected error", {}) EXCEPT !.parse = p.kind]

\* _make_openrouter_request has ended: the rest of recognize_food_with_bytes
RecognizeFinish ==
    /\ rg.pc = "calling"
    /\ cl.pc \in {"returned", "raised"}
    /\ LET ok == cl.pc = "returned" /\ cl.status = 200
       IN  \E body \in IF ok THEN RecogBodies ELSE {NoBody},
              text \in IF ok THEN {{}} ELSE TextKw :
                rg' = recognize_food_with_bytes(cl, body, text)
    /\ UNCHANGED <<handlerVars, cl>>

\* recognize_food after the call at main.py:326: the except OpenRouterError
\* clause (main.py:333-348) or, for any other exception, the catch-all
\* (main.py:403-411), or the post-validation (main.py:353-374) with
\* the handler's local is_low_confidence_zone; a valid result goes on to the
\* success response, which is built from the gate result
AfterRecognize ==
    /\ rg.pc \in {"returned", "raised"}
    /\ ~rg.handled
    /\ IF rg.pc = "raised"
       THEN IF rg.exc = "OpenRouterError"
            THEN rg' = [rg EXCEPT !.handled = TRUE,
                                  !.clause = "except OpenRouterError",
                                  !.resp = ErrorReturn(settings,
                                              ClassifyOpenRouterError(rg.msg),
                                              "trace", "")]
            ELSE rg' = [rg EXCEPT !.handled = TRUE,      \* main.py:403-411
                                  !.clause = "except Exception",
                                  !.resp = CatchAll(settings, "trace")]
       ELSE IF ~validate_recognition_result(rg.items, rg.total)
       THEN \E low \in BOOLEAN :
              rg' = [rg EXCEPT !.handled = TRUE, !.valid = FALSE, !.low = low,
                               !.resp = ErrorReturn(settings,
                                           IF low THEN "LOW_CONFIDENCE"
                                           ELSE "EMPTY_RESULT",
                                           "trace", "")]
       ELSE rg' = [rg EXCEPT !.handled = TRUE, !.valid = TRUE]
    /\ UNCHANGED <<handlerVars, cl>>

InitRecognize ==
    /\ InitHandler
    /\ cl = ClientStart
    /\ rg = [NoRecognition EXCEPT !.pc = "calling"]

NextRecognize ==
    ClientPost \/ ClientReply \/ ClientWake \/ RecognizeFinish \/ AfterRecognize

\* one direct call of recognize_food_with_bytes, and the handler's treatment
\* of its outcome
SpecRecognize == InitRecognize /\ [][NextRecognize]_vars

-----------------------------------------------------------------------------
(* Concurrent requests: two handler tasks and one task inside              *)
(* _make_openrouter_request on the same event loop                          *)

\* the uploads of the concurrent requests: readable JPEGs, empty or not, with
\* or without a trace-id header
ConcurrentUploads ==
    { u \in Uploads : /\ u.content_type = "image/jpeg"
                      /\ u.readable
                      /\ u.size \in {0, 1}
                      /\ u.recog_plan = "two_items_450" }

\* the gate answers of the concurrent requests
ConcurrentReplies ==
    { reply \in GateReplies :
        \/ reply.kind = "timeout"
        \/ reply.kind = "status" /\ reply.status = 429 /\ reply.text = {}
        \/ reply.kind = "content" /\ reply.root = "array"
        \/ /\ reply.kind = "content" /\ reply.root = "object"
           /\ reply.reason = "given"
           /\ <<reply.is_food, reply.confidence>>
                \in { <<"true", Num(90)>>, <<"false", Num(5)>> } }

\* the outcomes of the concurrent client call's POSTs
ConcurrentOutcomes ==
    { o \in ClientOutcomes : o.kind = "timeout" \/ o.status \in {200, 503} }

\* a step of request r among the concurrent ones
StepConcurrent(r) ==
    \/ ArriveFrom(r, ConcurrentUploads)
    \/ Validate(r)
    \/ GateReplyFrom(r, ConcurrentReplies)
    \/ Finish(r)

\* a step of the task inside _make_openrouter_request
StepClient ==
    ClientPost \/ ClientReplyFrom(ConcurrentOutcomes) \/ ClientWake

InitConcurrent ==
    /\ InitHandler
    /\ cl = ClientStart
    /\ rg = NoRecognition

\* the event loop runs one task up to its next await
NextConcurrent == (\E r \in Requests : StepConcurrent(r)) \/ StepClient

SpecConcurrent == InitConcurrent /\ [][NextConcurrent]_vars

-----------------------------------------------------------------------------
(* Properties of the request handler, under Spec *)

\* the handler has returned its response for request r
Answered(r) == pc[r] \in {"responded", "done"}

\* the gate confidence the handler compares (0 when absent)
GateConfidence(r) ==
    IF gate_result[r].has_confidence THEN gate_result[r].confidence ELSE 0

\* the HTTP status of an error with descriptor status st under the settings
ErrorHttp(st) == IF settings.error_http200_compat THEN 200 ELSE st

\* The recognition call of recognize_food (main.py:326) is not reached by any
\* request: every gate result with is_food true raises AttributeError at
\* main.py:298, since Settings declares no food_gate_min_threshold.
RecognitionNeverIssued ==
    \A r \in Requests : recog_calls[r] = 0 /\ pc[r] # "recognition_pending"

\* C1: an upload that passes validation, a gate answer is_food = true with
\* confidence 0.9 and a recognition answer of two items summing to 450 kcal
\* end in SUCCESS: HTTP 200, status success, is_food true, the gate's
\* confidence and reason, total kcal 450.
C1_SuccessScenario ==
    \A r \in Requests :
        ( /\ Answered(r)
          /\ gate_reply[r].kind = "content"
          /\ gate_reply[r].root = "object"
          /\ gate_reply[r].is_food = "true"
          /\ gate_reply[r].confidence = Num(90)
          /\ req[r].recog_plan = "two_items_450" )
        => ( /\ resp[r].kind = "success"
             /\ resp[r].http = 200
             /\ resp[r].is_food
             /\ resp[r].confidence = 90
             /\ resp[r].gate_reason = gate_result[r].reason
             /\ resp[r].total_kcal = 450 )

\* C2: a gate result with is_food = None ends the request with GATE_ERROR
\* (descriptor status 502, sent as 502 unless the compat flag forces 200;
\* allow_retry true), never UNSUPPORTED_CONTENT, and no recognition call.
C2_GateNoneIsGateError ==
    \A r \in Requests :
        ( pc[r] \notin {"idle", "handler", "gate_pending"}
          /\ gate_result[r].is_food = "None" )
        => ( /\ Answered(r)
             /\ resp[r].kind = "error"
             /\ resp[r].error_code = "GATE_ERROR"
             /\ resp[r].error_code # "UNSUPPORTED_CONTENT"
             /\ resp[r].http = ErrorHttp(502)
             /\ resp[r].allow_retry
             /\ recog_calls[r] = 0 )

\* C2 witness: an unparseable gate answer (a JSON array) was answered with
\* HTTP 502
C2_Witness ==
    \E r \in Requests :
        /\ pc[r] = "done"
        /\ gate_reply[r].root = "array"
        /\ gate_result[r].is_food = "None"
        /\ resp[r].http = 502

\* C3: a parsed gate result with is_food = false ends the request with
\* UNSUPPORTED_CONTENT, HTTP 400 (200 in compat mode, same error code),
\* allow_retry false, and no recognition call.
C3_NotFoodIsUnsupportedContent ==
    \A r \in Requests :
        ( pc[r] \notin {"idle", "handler", "gate_pending"}
          /\ gate_result[r].is_food = "False" )
        => ( /\ Answered(r)
             /\ resp[r].kind = "error"
             /\ resp[r].error_code = "UNSUPPORTED_CONTENT"
             /\ resp[r].http = (IF settings.error_http200_compat THEN 200 ELSE 400)
             /\ ~resp[r].allow_retry
             /\ recog_calls[r] = 0 )

\* C3 witness: is_food = false with confidence 0.05, answered in compat mode
\* with HTTP 200
C3_Witness ==
    \E r \in Requests :
        /\ pc[r] = "done"
        /\ gate_reply[r].is_food = "false"
        /\ gate_reply[r].confidence = Num(5)
        /\ gate_result[r].is_food = "False"
        /\ settings.error_http200_compat
        /\ resp[r].http = 200
        /\ resp[r].error_code = "UNSUPPORTED_CONTENT"

\* C4: for a parsed gate result with is_food = true and confidence c there is
\* a threshold min such that c < min ends the request with
\* UNSUPPORTED_CONTENT and no recognition call, and c >= min issues the
\* recognition call.
C4_ThresholdBands ==
    \E min \in 0 .. 101 :
        \A r \in Requests :
            ( pc[r] \notin {"idle", "handler", "gate_pending"}
              /\ gate_result[r].is_food = "True" )
            => IF GateConfidence(r) < min
               THEN /\ Answered(r)
                    /\ resp[r].error_code = "UNSUPPORTED_CONTENT"
                    /\ recog_calls[r] = 0
               ELSE recog_calls[r] = 1

\* C5: the gate passes and recognition returns zero items: the error code is
\* LOW_CONFIDENCE for a gate confidence below medThreshold (0.5 with min 0.4,
\* med 0.6) and EMPTY_RESULT otherwise (0.9).
C5_EmptyResultByZone ==
    \A r \in Requests :
        ( /\ Answered(r)
          /\ gate_result[r].is_food = "True"
          /\ GateConfidence(r) >= 40
          /\ req[r].recog_plan = "zero_items" )
        => ( /\ resp[r].kind = "error"
             /\ resp[r].error_code =
                  IF GateConfidence(r) < 60 THEN "LOW_CONFIDENCE"
                  ELSE "EMPTY_RESULT" )

-----------------------------------------------------------------------------
(* Properties of the gate stage, under Spec *)

\* the handler of request r is past the gate's POST
PastGate(r) == pc[r] \notin {"idle", "handler", "gate_pending"}

\* the gate's POST failed in a way the upstream client would retry: a status
\* of its retryable set, a timeout or a connection error
GateFailedRetryably(r) ==
    \/ gate_reply[r].kind \in {"timeout", "request_error"}
    \/ gate_reply[r].kind = "status"
       /\ gate_reply[r].status \in {429, 500, 502, 503, 504}

C13_GateNon200Raises ==
    \A r \in Requests :
        ( PastGate(r) /\ gate_reply[r].kind = "status" /\ gate_reply[r].status # 200 )
        => ( /\ gate_error[r].raised
             /\ gate_result[r] = NoGateResult
             /\ Answered(r)
             /\ resp[r].kind = "error"
             /\ recog_calls[r] = 0
             /\ IF gate_reply[r].status = 429
                THEN /\ gate_error[r].text = "Gate rate limited (429)"
                     /\ "rate" \in gate_error[r].msg
                ELSE gate_error[r].text = "Gate API error" )

\* C13 witness: a 429 from the gate's POST raised the rate-limit error
C13_Witness ==
    \E r \in Requests :
        /\ pc[r] = "done"
        /\ gate_reply[r].kind = "status"
        /\ gate_reply[r].status = 429
        /\ gate_error[r].raised
        /\ gate_error[r].text = "Gate rate limited (429)"
        /\ resp[r].error_code = "RATE_LIMIT"

\* the gate's POST was answered 200 with a completion text, which
\* parse_gate_response has parsed
GateParsed(r) == PastGate(r) /\ gate_reply[r].kind = "content"

C15_ConfidenceClamped ==
    \A r \in Requests :
        /\ ( GateParsed(r) /\ gate_reply[r].root = "object"
             /\ gate_reply[r].confidence.t = "num" )
           => ( /\ gate_result[r].is_food \in {"True", "False"}
                /\ gate_result[r].has_confidence
                /\ gate_result[r].confidence =
                     IF gate_reply[r].confidence.v > 100 THEN 100
                     ELSE IF gate_reply[r].confidence.v < 0 THEN 0
                     ELSE gate_reply[r].confidence.v )
        /\ gate_result[r].has_confidence
           => ( 0 <= gate_result[r].confidence /\ gate_result[r].confidence <= 100 )

\* C15 witness: a confidence of -0.5 was clamped to 0, the answer not rejected
C15_Witness ==
    \E r \in Requests :
        /\ pc[r] = "done"
        /\ gate_reply[r].kind = "content"
        /\ gate_reply[r].root = "object"
        /\ gate_reply[r].confidence = Num(-50)
        /\ gate_result[r].has_confidence
        /\ gate_result[r].confidence = 0
        /\ gate_result[r].is_food # "None"

-----------------------------------------------------------------------------
(* Properties of the error responses, under Spec *)

\* the descriptor of the code a response carries
DescriptorOf(r) == ERROR_DEFINITIONS[resp[r].error_code]

\* the handler of request r raised an exception no stage-specific branch
\* handles: the AttributeError of main.py:298 on a gate result with is_food
\* true
RaisedUnhandled(r) ==
    /\ PastGate(r)
    /\ gate_result[r].is_food = "True"
    /\ GateDecision(settings, gate_result[r]).kind = "raise"

\* C21: an exception raised inside the handler that no stage-specific branch
\* handles is turned into an UPSTREAM_ERROR response; the user-visible text of
\* every response body comes from the descriptor table or a fixed literal,
\* never from an exception message; the handler always returns a response.
C21_CatchAllIsUpstreamError ==
    \A r \in Requests :
        /\ PastGate(r) => Answered(r)
        /\ Answered(r) =>
             /\ resp[r].kind = "error"
             /\ resp[r].error_code \in DOMAIN ERROR_DEFINITIONS
             /\ resp[r].user_title = DescriptorOf(r).user_title
             /\ resp[r].user_message \in {DescriptorOf(r).user_message, "Empty file."}
             /\ resp[r].user_actions = DescriptorOf(r).user_actions
             /\ resp[r].allow_retry = DescriptorOf(r).allow_retry
        /\ RaisedUnhandled(r) =>
             /\ resp[r].error_code = "UPSTREAM_ERROR"
             /\ resp[r].user_message = ERROR_DEFINITIONS["UPSTREAM_ERROR"].user_message
             /\ resp[r].http = ErrorHttp(502)

\* C21 witness: the AttributeError raised for a gate result with is_food true
\* was answered with UPSTREAM_ERROR
C21_Witness ==
    \E r \in Requests :
        /\ pc[r] = "done"
        /\ gate_result[r].is_food = "True"
        /\ RaisedUnhandled(r)
        /\ resp[r].error_code = "UPSTREAM_ERROR"
        /\ resp[r].http = 502

\* the response recognize_food returns for the upload and the gate answer of
\* request r when the settings are s
ResponseUnder(s, r) ==
    LET code == ValidationError(s, req[r])
        out  == check_food_gate(gate_reply[r])
        d    == GateDecision(s, out.result)
    IN  IF code # ""
        THEN ErrorReturn(s, code, trace_id[r], ValidationMessage(req[r]))
        ELSE IF out.raised
        THEN ErrorReturn(s, ClassifyOpenRouterError(out.msg), trace_id[r], "")
        ELSE IF d.kind = "error"
        THEN ErrorReturn(s, d.code, trace_id[r], "")
        ELSE IF d.kind = "raise"
        THEN CatchAll(s, trace_id[r])
        ELSE NoResponse

\* the JSON body of a response: everything but the HTTP status and headers
BodyOf(response) == [response EXCEPT !.http = 0, !.header_trace_id = "-"]

\* the settings with the compat flag set to b
WithCompat(b) == [settings EXCEPT !.error_http200_compat = b]

\* C23: for every error outcome, the same request run with the compat flag
\* on and off differs only in the HTTP status (200 instead of the descriptor's
\* http_status); the body (status, error_code, user_title, user_message,
\* user_actions, allow_retry, trace_id) is the same in both runs.
C23_CompatChangesOnlyHttpStatus ==
    \A r \in Requests :
        ( Answered(r) /\ resp[r].kind = "error" )
        => LET on  == ResponseUnder(WithCompat(TRUE), r)
               off == ResponseUnder(WithCompat(FALSE), r)
           IN  /\ BodyOf(on) = BodyOf(off)
               /\ on.kind = "error"
               /\ on.http = 200
               /\ off.http = ERROR_DEFINITIONS[off.error_code].http_status
               /\ BodyOf(resp[r]) = BodyOf(on)
               /\ resp[r].http = IF settings.error_http200_compat
                                 THEN on.http ELSE off.http

\* C23 witness: an oversized upload answered in compat mode: HTTP 200 with
\* the IMAGE_TOO_LARGE body, whose descriptor status is 413
C23_Witness ==
    \E r \in Requests :
        /\ pc[r] = "done"
        /\ settings.error_http200_compat
        /\ resp[r].error_code = "IMAGE_TOO_LARGE"
        /\ resp[r].http = 200
        /\ ERROR_DEFINITIONS["IMAGE_TOO_LARGE"].http_status = 413

\* C24: a request that supplies a trace-id header gets that id back in the
\* body's trace_id and in the X-Trace-Id response header, whatever the
\* response; when none is supplied a fresh non-empty id is generated once and
\* used in both places.
C24_TraceIdEchoed ==
    \A r \in Requests :
        LET expected == IF req[r].trace_header # "" THEN req[r].trace_header
                        ELSE FreshId(r)
        IN  /\ Answered(r) =>
                 ( resp[r].trace_id = expected /\ resp[r].trace_id # "" )
            /\ pc[r] = "done" =>
                 ( resp[r].header_trace_id = expected
                   /\ resp[r].header_trace_id = resp[r].trace_id )

\* C24 witness: a request with the header "caller-trace" whose gate call timed
\* out was answered with that id in body and header
C24_Witness ==
    \E r \in Requests :
        /\ pc[r] = "done"
        /\ req[r].trace_header = "caller-trace"
        /\ gate_reply[r].kind = "timeout"
        /\ resp[r].trace_id = "caller-trace"
        /\ resp[r].header_trace_id = "caller-trace"

\* C25: within one request the recognition call starts only after the gate
\* call has completed with a passing decision; the two calls are never in
\* flight together; a request issues at most one gate call and at most one
\* recognition call.
C25_GateBeforeRecognition ==
    \A r \in Requests :
        /\ gate_calls[r] <= 1
        /\ recog_calls[r] <= 1
        /\ pc[r] = "gate_pending" => ( gate_calls[r] = 1 /\ recog_calls[r] = 0 )
        /\ ( recog_calls[r] > 0 \/ pc[r] = "recognition_pending" )
           => ( /\ gate_calls[r] = 1
                /\ pc[r] # "gate_pending"
                /\ ~gate_error[r].raised
                /\ gate_result[r].is_food = "True" )

\* C25 witness: the gate call of a request is in flight: one gate call, no
\* recognition call
C25_Witness ==
    \E r \in Requests :
        /\ pc[r] = "gate_pending"
        /\ gate_calls[r] = 1
        /\ recog_calls[r] = 0
        /\ req[r].size > 0

-----------------------------------------------------------------------------
(* Properties of concurrent requests, under SpecConcurrent *)

\* what the service keeps for request r
RequestState(r) ==
    <<pc[r], req[r], request_id_ctx[r], trace_id[r], gate_reply[r],
      gate_result[r], gate_error[r], gate_calls[r], recog_calls[r], resp[r]>>

\* a step leaves the settings as they are, and leaves everything kept for a
\* request whose handler did not move as it is
StepFrame ==
    /\ settings' = settings
    /\ \A r \in Requests :
         pc'[r] = pc[r]
         => <<pc'[r], req'[r], request_id_ctx'[r], trace_id'[r], gate_reply'[r],
              gate_result'[r], gate_error'[r], gate_calls'[r], recog_calls'[r],
              resp'[r]>> = RequestState(r)

\* the response of an answered request is the one its own upload, trace id
\* and gate answer give
OwnInputsDecide ==
    \A r \in Requests :
        Answered(r)
        => /\ BodyOf(resp[r]) = BodyOf(ResponseUnder(settings, r))
           /\ resp[r].http = ResponseUnder(settings, r).http
           /\ resp[r].trace_id =
                IF req[r].trace_header # "" THEN req[r].trace_header ELSE FreshId(r)

\* C26: no step of request handling writes the configuration (the descriptor
\* table is a constant of the module: no statement assigns to it), and no
\* other state is shared between requests: a step of one request changes
\* nothing kept for another, and a request's outcome depends only on its own
\* inputs and its own upstream replies.
C26_NoSharedWrites == [][StepFrame]_vars /\ []OwnInputsDecide

\* C26 witness: two concurrent requests were answered with different codes
\* and different trace ids
C26_Witness ==
    /\ pc["r1"] = "done"
    /\ pc["r2"] = "done"
    /\ resp["r1"].error_code = "INVALID_IMAGE"
    /\ resp["r2"].error_code = "RATE_LIMIT"
    /\ resp["r1"].trace_id = "caller-trace"
    /\ resp["r2"].trace_id = FreshId("r2")

\* C27: while a request is suspended in an upstream HTTP wait, or a call is
\* in a retry backoff sleep, every other unfinished request can take its next
\* step: no task's progress needs another's upstream call or sleep to end.
C27_NoTaskBlocksAnother ==
    /\ \A r \in Requests : pc[r] # "done" => ENABLED StepConcurrent(r)
    /\ cl.pc \in {"ready", "posting", "sleeping"} => ENABLED StepClient

\* C27 witness: one request is waiting for the gate's answer and the client
\* call is in a backoff sleep, while the other request has got its response
C27_Witness ==
    /\ pc["r1"] = "gate_pending"
    /\ cl.pc = "sleeping"
    /\ pc["r2"] = "done"
    /\ resp["r2"].kind = "error"

\* C29: every GateResult the gate stage produces with is_food = true carries
\* a confidence; a GateResult without a confidence has is_food = None.
C29_FoodHasConfidence ==
    \A r \in Requests :
        ( PastGate(r) /\ gate_result[r] # NoGateResult )
        => /\ gate_result[r].is_food = "True" => gate_result[r].has_confidence
           /\ ~gate_result[r].has_confidence => gate_result[r].is_food = "None"

\* C29 witness: an answer with is_food true and no "confidence" key gave a
\* GateResult with is_food true and confidence 0.0
C29_Witness ==
    \E r \in Requests :
        /\ pc[r] = "done"
        /\ gate_reply[r].kind = "content"
        /\ gate_reply[r].is_food = "true"
        /\ gate_reply[r].confidence = Absent
        /\ gate_result[r].is_food = "True"
        /\ gate_result[r].has_confidence
        /\ gate_result[r].confidence = 0

\* C30: the two thresholds the handler compares the gate confidence with,
\* settings.food_gate_min_threshold and settings.food_gate_med_threshold, are
\* values the configuration object defines, and min <= med.
C30_ThresholdsConfigured ==
    /\ HasAttr(settings, "food_gate_min_threshold")
    /\ HasAttr(settings, "food_gate_med_threshold")
    /\ settings["food_gate_min_threshold"] <= settings["food_gate_med_threshold"]

\* the gate's POST of request r failed: a timeout, a connection error or a
\* status other than 200
GateUpstreamFailed(r) ==
    PastGate(r) /\ gate_reply[r].kind \in {"timeout", "request_error", "status"}

GateAnsweredEmptyObject(r) ==
    /\ PastGate(r)
    /\ gate_reply[r] = Reply("content", 200, {}, "object", "absent", Absent, "absent")

\* C33: a gate answer that is a JSON object without its fields parses to
\* is_food false, confidence 0.0 and reason "unknown" (not the invalid result
\* with is_food None), and the request is rejected with UNSUPPORTED_CONTENT,
\* not GATE_ERROR, without a recognition call.
C33_EmptyObjectIsNotFood ==
    \A r \in Requests :
        GateAnsweredEmptyObject(r)
        => /\ gate_result[r] = GateResult("False", TRUE, 0, "unknown")
           /\ ~gate_error[r].raised
           /\ Answered(r)
           /\ resp[r].error_code = "UNSUPPORTED_CONTENT"
           /\ recog_calls[r] = 0

\* C33 witness: a request whose gate answer was {} has been answered
C33_Witness ==
    \E r \in Requests :
        /\ pc[r] = "done"
        /\ GateAnsweredEmptyObject(r)
        /\ gate_result[r].reason = "unknown"
        /\ resp[r].kind = "error"

\* request r has been through the validation of its upload
Validated(r) == pc[r] \notin {"idle", "handler"}

\* request r was rejected by the validation with this code and HTTP status,
\* and no upstream call was made for it
RejectedWith(r, code, http) ==
    /\ Answered(r)
    /\ resp[r].kind = "error"
    /\ resp[r].error_code = code
    /\ resp[r].http = ErrorHttp(http)
    /\ gate_calls[r] = 0
    /\ recog_calls[r] = 0
    /\ gate_reply[r] = NoReply

\* C37: no upstream call is made for a request that the validation rejects,
\* and the checks run in a fixed order: a content type outside the allow-list
\* gives UNSUPPORTED_IMAGE_FORMAT whatever the file is; then an unreadable
\* upload gives INVALID_IMAGE, then an empty file INVALID_IMAGE, then a size
\* strictly greater than the maximum IMAGE_TOO_LARGE (HTTP 413); a file of
\* exactly the maximum size is accepted and the gate call is issued.
C37_ValidationOrder ==
    \A r \in Requests :
        Validated(r)
        => LET u == req[r]
               max == settings.max_image_size_bytes
           IN  /\ u.content_type \notin {"image/jpeg", "image/png", "image/jpg"}
                  => RejectedWith(r, "UNSUPPORTED_IMAGE_FORMAT", 400)
               /\ ( u.content_type = "image/jpeg" /\ ~u.readable )
                  => RejectedWith(r, "INVALID_IMAGE", 400)
               /\ ( u.content_type = "image/jpeg" /\ u.readable /\ u.size = 0 )
                  => RejectedWith(r, "INVALID_IMAGE", 400)
               /\ ( u.content_type = "image/jpeg" /\ u.readable /\ u.size > max )
                  => RejectedWith(r, "IMAGE_TOO_LARGE", 413)
               /\ ( u.content_type = "image/jpeg" /\ u.readable
                    /\ u.size >= 1 /\ u.size <= max )
                  => /\ gate_calls[r] = 1
                     /\ resp[r].error_code \notin
                          {"UNSUPPORTED_IMAGE_FORMAT", "INVALID_IMAGE", "IMAGE_TOO_LARGE"}

\* C37 witness: a readable JPEG of exactly the maximum size passed the
\* validation and the gate call for it is pending
C37_Witness ==
    \E r \in Requests :
        /\ pc[r] = "gate_pending"
        /\ req[r].content_type = "image/jpeg"
        /\ req[r].readable
        /\ req[r].size = settings.max_image_size_bytes
        /\ gate_calls[r] = 1
        /\ resp[r] = NoResponse

\* the messages of the OpenRouterError that check_food_gate raises (their
\* fixed part)
GateMessages ==
    { "Gate rate limited (429)", "Gate API error", "Gate API returned non-dict response",
      "Gate API response missing expected fields", "Gate timeout",
      "Gate network error", "Gate internal error" }

\* The gate half of C38, under Spec: every failure of check_food_gate is an
\* OpenRouterError with one of its messages, and the request is answered by
\* the classification of that message, the catch-all's code only when the
\* classification selects it.
GateRaisesOnlyOpenRouterError ==
    \A r \in Requests :
        /\ ( PastGate(r) /\ gate_reply[r].kind \notin {"-", "content"} )
           => gate_error[r].raised
        /\ gate_error[r].raised
           => /\ gate_error[r].text \in GateMessages
              /\ gate_result[r] = NoGateResult
              /\ Answered(r)
              /\ resp[r].kind = "error"
              /\ resp[r].error_code = ClassifyOpenRouterError(gate_error[r].msg)

\* The request half of C39, under Spec: a request has no response before it
\* is answered and exactly one afterwards, an error body; a success body
\* would need a gate result with is_food true and a recognition call, and no
\* request gets that far (RecognitionNeverIssued).
EveryRequestAnsweredOnce ==
    \A r \in Requests :
        /\ ~Answered(r) => resp[r] = NoResponse
        /\ Answered(r) => resp[r].kind \in {"error", "success"}
        /\ resp[r].kind = "success"
           => /\ gate_result[r].is_food = "True"
              /\ recog_calls[r] = 1
              /\ Len(resp[r].items) >= 1
        /\ resp[r].kind = "error" => resp[r].items = <<>>

\* the trace id of request r: the caller's header, or the id generated for it
OwnTraceId(r) ==
    IF req[r].trace_header # "" THEN req[r].trace_header ELSE FreshId(r)

\* C40: under every interleaving of two requests, the trace id a request reads
\* and the one in its response, body and X-Trace-Id header, is its own, never
\* the other request's; the request's trace context holds its own id while
\* the request is handled and is reset when the request completes, also when
\* its handling raised.
C40_TraceIdIsOwn ==
    \A r \in Requests :
        /\ pc[r] = "idle" => request_id_ctx[r] = ""
        /\ pc[r] \in {"handler", "gate_pending", "responded"}
           => request_id_ctx[r] = OwnTraceId(r)
        /\ pc[r] \in {"gate_pending", "responded", "done"}
           => trace_id[r] = OwnTraceId(r)
        /\ Answered(r) => resp[r].trace_id = OwnTraceId(r)
        /\ pc[r] = "done"
           => /\ resp[r].header_trace_id = OwnTraceId(r)
              /\ request_id_ctx[r] = ""
        /\ \A q \in Requests \ {r} :
             ( Answered(r) /\ pc[q] # "idle" /\ OwnTraceId(q) # OwnTraceId(r) )
             => resp[r].trace_id # OwnTraceId(q)

\* C40 witness: the handling of r1 raised (a gate result with is_food true)
\* while r2 waited for its gate: r1 was answered with its own id, its context
\* is reset, and r2's context still holds r2's id
C40_Witness ==
    /\ pc["r1"] = "done"
    /\ RaisedUnhandled("r1")
    /\ req["r1"].trace_header = "caller-trace"
    /\ resp["r1"].trace_id = "caller-trace"
    /\ resp["r1"].header_trace_id = "caller-trace"
    /\ request_id_ctx["r1"] = ""
    /\ pc["r2"] = "gate_pending"
    /\ req["r2"].trace_header = ""
    /\ request_id_ctx["r2"] = FreshId("r2")

-----------------------------------------------------------------------------
(* Properties of _make_openrouter_request, under SpecClient *)

ClientFinished == cl.pc \in {"returned", "raised"}

\* every attempt so far was answered with a retryable status
AllRetryableStatuses ==
    \A i \in 1 .. Len(cl.outcomes) :
        cl.outcomes[i].kind = "status"
        /\ cl.outcomes[i].status \in {429, 500, 502, 503, 504}

\* every attempt so far failed with a transport exception
AllTransportExceptions ==
    \A i \in 1 .. Len(cl.outcomes) :
        cl.outcomes[i].kind \in {"timeout", "request_error"}

\* C8: a call whose every attempt returns a retryable status makes exactly 3
\* POST attempts and 2 backoff sleeps and then returns the last response as
\* a value; it does not raise, and it does not end earlier.
C8_RetryableExhaustedReturnsLast ==
    ( cl.outcomes # <<>> /\ AllRetryableStatuses )
    => /\ cl.pc # "raised"
       /\ ClientFinished <=> Len(cl.outcomes) = 3
       /\ ClientFinished =>
            /\ cl.pc = "returned"
            /\ cl.posts = 3
            /\ Len(cl.sleeps) = 2
            /\ cl.result = "response"
            /\ cl.status = cl.outcomes[3].status

\* C8 witness: 503 three times in a row, and the call has returned
C8_Witness ==
    /\ cl.pc = "returned"
    /\ Len(cl.outcomes) = 3
    /\ \A i \in 1 .. 3 : cl.outcomes[i] = [kind |-> "status", status |-> 503]
    /\ cl.status = 503

\* C9: a response with a status in {400, 401, 403, 413, 422}, on whichever
\* attempt, is returned at once: it is the last outcome, no sleep follows it
\* and no further POST is made; the two status sets are disjoint.
C9_NonRetryableReturnsAtOnce ==
    /\ RETRYABLE_STATUS_CODES \cap NON_RETRYABLE_STATUS_CODES = {}
    /\ \A i \in 1 .. Len(cl.outcomes) :
         ( cl.outcomes[i].kind = "status"
           /\ cl.outcomes[i].status \in {400, 401, 403, 413, 422} )
         => ( /\ i = Len(cl.outcomes)
              /\ cl.pc = "returned"
              /\ cl.result = "response"
              /\ cl.status = cl.outcomes[i].status
              /\ cl.posts = i
              /\ Len(cl.sleeps) = i - 1 )

\* C9 witness: a 401 on the second attempt, after a 503, was returned
C9_Witness ==
    /\ cl.pc = "returned"
    /\ Len(cl.outcomes) = 2
    /\ cl.outcomes[1] = [kind |-> "status", status |-> 503]
    /\ cl.outcomes[2] = [kind |-> "status", status |-> 401]
    /\ cl.status = 401

\* C10: a call whose every attempt fails with a timeout or a connection
\* error makes exactly 3 attempts with 2 sleeps and then re-raises the
\* exception of the last attempt; it never returns a response.
C10_TransportExhaustedReraises ==
    ( cl.outcomes # <<>> /\ AllTransportExceptions )
    => /\ cl.pc # "returned"
       /\ ClientFinished <=> Len(cl.outcomes) = 3
       /\ ClientFinished =>
            /\ cl.pc = "raised"
            /\ cl.posts = 3
            /\ Len(cl.sleeps) = 2
            /\ cl.result = Exc(cl.outcomes[3].kind, 3)

\* C10 witness: timeout, timeout, connection error; the connection error of
\* the third attempt was raised
C10_Witness ==
    /\ cl.pc = "raised"
    /\ Len(cl.outcomes) = 3
    /\ cl.outcomes[1].kind = "timeout"
    /\ cl.outcomes[2].kind = "timeout"
    /\ cl.outcomes[3].kind = "request_error"
    /\ cl.result = "request_error@3"

\* C11: the sleep after failed attempt n (n = 1, 2) is min(1 * 2^(n-1), 10)
\* seconds, 1 then 2, whether the attempt failed with a retryable status, a
\* timeout or a connection error; no delay exceeds the cap of 10 seconds and no
\* sleep follows the third attempt.
C11_BackoffDelays ==
    /\ Len(cl.sleeps) <= 2
    /\ Len(cl.sleeps) <= Len(cl.outcomes)
    /\ \A n \in 1 .. Len(cl.sleeps) :
         /\ cl.sleeps[n] = (IF n = 1 THEN 1 ELSE 2)
         /\ cl.sleeps[n] <= 10
    /\ \A n \in 1 .. Len(cl.outcomes) :
         ( n < 3
           /\ \/ cl.outcomes[n].kind \in {"timeout", "request_error"}
              \/ cl.outcomes[n].status \in {429, 500, 502, 503, 504} )
         => ( Len(cl.sleeps) >= n /\ cl.sleeps[n] = (IF n = 1 THEN 1 ELSE 2) )
    /\ Len(cl.outcomes) = 3 => ( cl.pc # "sleeping" /\ Len(cl.sleeps) = 2 )

\* C11 witness: a 429, then a timeout, then a connection error: the call
\* slept 1 and then 2 seconds and ended after the third attempt
C11_Witness ==
    /\ ClientFinished
    /\ Len(cl.outcomes) = 3
    /\ cl.outcomes[1] = [kind |-> "status", status |-> 429]
    /\ cl.outcomes[2].kind = "timeout"
    /\ cl.outcomes[3].kind = "request_error"
    /\ cl.sleeps = <<1, 2>>


\* the bounds and the outcome of the call in the current state
C35_Bounded ==
    /\ cl.posts <= 3
    /\ Len(cl.sleeps) <= 2
    /\ Len(cl.sleeps) <= cl.posts
    /\ cl.pc # "off" => cl.attempt \in 1 .. 3
    /\ cl.pc \in {"posting", "sleeping", "returned", "raised"}
       => cl.posts = cl.attempt
    /\ cl.result # "OpenRouterError:loop-exit"
    /\ cl.pc = "returned"
       => /\ cl.result = "response"
          /\ cl.outcomes[Len(cl.outcomes)] = [kind |-> "status", status |-> cl.status]
    /\ cl.pc = "raised"
       => /\ Len(cl.outcomes) = 3
          /\ cl.outcomes[3].kind \in {"timeout", "request_error"}
          /\ cl.result = Exc(cl.outcomes[3].kind, 3)

\* C35: for every sequence of upstream behaviours, retryable statuses and
\* transport exceptions mixed, the call counts its attempts with one counter:
\* at most 3 POSTs and at most 2 sleeps; it always ends, returning a response
\* or raising the transport exception of the last attempt, and never with the
\* "Unexpected retry loop exit" error.
C35_BoundedAndTerminates == []C35_Bounded /\ <>ClientFinished

\* C35 witness: a timeout, a 503 and a connection error: the third attempt's
\* exception was raised after 3 POSTs and 2 sleeps
C35_Witness ==
    /\ cl.pc = "raised"
    /\ cl.outcomes = << [kind |-> "timeout", status |-> 0],
                        [kind |-> "status", status |-> 503],
                        [kind |-> "request_error", status |-> 0] >>
    /\ cl.posts = 3
    /\ Len(cl.sleeps) = 2
    /\ cl.result = Exc("request_error", 3)

-----------------------------------------------------------------------------
(* Properties of the recognition stage, under SpecRecognize *)

\* recognize_food_with_bytes has returned or raised
RecognizeDone == rg.pc \in {"returned", "raised"}

\* the completion text without its preamble and separator
Answer == rg.body.text[Len(rg.body.text)]

\* the 200 answer carried a completion text that parse_ai_response was given
AnswerParsed == RecognizeDone /\ rg.body.kind = "content"

\* ... and the text is an object with a list under "items"
AnswerIsList ==
    AnswerParsed /\ Answer.root = "object" /\ Answer.items_kind = "list"

RECURSIVE ItemSum(_, _)
\* the sum of field f over the first n items returned
ItemSum(f, n) == IF n = 0 THEN 0 ELSE rg.items[n][f] + ItemSum(f, n - 1)

\* C16: the totals the recognition stage returns are the field-wise sums
\* (kcal, protein, fat, carbohydrates) over the parsed items, whatever "total"
\* the model supplied; for an empty item list they are all zero and the
\* handler treats the outcome as invalid: an error, never a success.
C16_TotalsAreItemSums ==
    /\ rg.pc = "returned"
       => /\ \A f \in {"kcal", "protein", "fat", "carbohydrates"} :
               rg.total[f] = ItemSum(f, Len(rg.items))
          /\ AnswerIsList => Len(rg.items) = Len(Answer.items)
    /\ ( rg.pc = "returned" /\ rg.items = <<>> )
       => /\ \A f \in {"kcal", "protein", "fat", "carbohydrates"} : rg.total[f] = 0
          /\ rg.handled => ( ~rg.valid /\ rg.resp.kind = "error" )
    /\ rg.resp.kind # "success"

\* C16 witness: two items of 200 and 250 kcal and a model-supplied total of
\* 999: the total returned is 450 kcal
C16_Witness ==
    /\ rg.pc = "returned"
    /\ rg.handled
    /\ Answer.total = Num(999)
    /\ Len(rg.items) = 2
    /\ rg.items[1].kcal = 200
    /\ rg.items[2].kcal = 250
    /\ rg.total.kcal = 450

\* the numeric keys of the schema
NumericFields == {"grams", "kcal", "protein", "fat", "carbohydrates"}

\* an element the claim's aliases make complete: an object with a name, each
\* numeric key given as a number under its own name or under an alias of `al`
CompleteUnder(al, raw) ==
    /\ raw.obj
    /\ raw.name.t = "str"
    /\ \A f \in NumericFields :
         \/ raw[f].t = "num"
         \/ raw[f].t = "absent" /\ \E p \in al : p[1] = f /\ raw[p[2]].t = "num"

\* every element of the answer's list that carries a key of `al` only under
\* its alias was coerced to an item holding the alias's value under the
\* schema key
AliasesFolded(al) ==
    ( AnswerIsList
      /\ \A i \in 1 .. Len(Answer.items) : CompleteUnder(al, Answer.items[i]) )
    => /\ rg.pc = "returned"
       /\ Len(rg.items) = Len(Answer.items)
       /\ \A i \in 1 .. Len(Answer.items) : \A p \in al :
            Answer.items[i][p[1]].t = "absent"
            => rg.items[i][p[1]] = Answer.items[i][p[2]].v

\* C17 as stated: for each of carbs -> carbohydrates, calories -> kcal and
\* amount_grams -> grams, an item with the alias key coerces to the item it
\* would be with the schema key.
C17_Original ==
    AliasesFolded({ <<"carbohydrates", "carbs">>, <<"kcal", "calories">>,
                    <<"grams", "amount_grams">> })

\* C17 amended: for each of carbs -> carbohydrates and calories -> kcal, an
\* item with the alias key coerces to the item it would be with the schema
\* key; amount_grams is not an alias of grams: an item with amount_grams and
\* no grams fails with OpenRouterError (missing required field).
C17_TwoAliasesFolded ==
    /\ AliasesFolded({ <<"carbohydrates", "carbs">>, <<"kcal", "calories">> })
    /\ ( AnswerIsList /\ Answer.items # <<>>
         /\ Answer.items[1].obj
         /\ Answer.items[1].name.t = "str"
         /\ Answer.items[1].grams.t = "absent"
         /\ Answer.items[1].amount_grams.t = "num" )
       => ( /\ rg.pc = "raised"
            /\ rg.parse = "OpenRouterError"
            /\ rg.text = "Missing required field in AI response" )

\* C17 witness: an item with "calories" and no "kcal" was returned with the
\* value under kcal
C17_Witness ==
    /\ rg.pc = "returned"
    /\ Len(Answer.items) = 1
    /\ Answer.items[1].kcal = Absent
    /\ Answer.items[1].calories = AliasValue
    /\ rg.items[1].kcal = AliasValue.v

\* C18: an item that carries both an alias and the schema key, with different
\* values, takes the value of the schema key; the alias has no effect.
C18_SchemaKeyWins ==
    ( AnswerIsList
      /\ \A i \in 1 .. Len(Answer.items) : CompleteUnder({}, Answer.items[i]) )
    => /\ rg.pc = "returned"
       /\ Len(rg.items) = Len(Answer.items)
       /\ \A i \in 1 .. Len(Answer.items) :
            /\ rg.items[i].name = "name"
            /\ \A f \in NumericFields : rg.items[i][f] = Answer.items[i][f].v

\* C18 witness: an item with kcal 200 and calories 30 was returned with kcal
\* 200
C18_Witness ==
    /\ rg.pc = "returned"
    /\ Len(Answer.items) = 1
    /\ Answer.items[1].kcal = Num(200)
    /\ Answer.items[1].calories = AliasValue
    /\ rg.items[1].kcal = 200

\* C19: parse_ai_response, for every input (a root that is not an object,
\* "items" that is not a list, an item lacking a required field or with a
\* non-numeric one), either returns the parsed items or raises
\* OpenRouterError; no other exception reaches its caller.
C19_OnlyOpenRouterError ==
    AnswerParsed => rg.parse \in {"ok", "OpenRouterError"}

\* every attempt of the call ended the same way
EveryAttempt(o) ==
    Len(cl.outcomes) = 3 /\ \A i \in 1 .. 3 : cl.outcomes[i] = o

\* C20: a recognition call that times out on every attempt ends the request
\* with UPSTREAM_TIMEOUT (HTTP 504), and one answered 429 on every attempt
\* with RATE_LIMIT (HTTP 429); both with allow_retry true.
C20_RecognitionTimeoutAndRateLimit ==
    /\ ( rg.handled /\ EveryAttempt([kind |-> "timeout", status |-> 0]) )
       => ( /\ rg.resp.error_code = "UPSTREAM_TIMEOUT"
            /\ rg.resp.http = ErrorHttp(504)
            /\ rg.resp.allow_retry )
    /\ ( rg.handled /\ EveryAttempt([kind |-> "status", status |-> 429]) )
       => ( /\ rg.resp.error_code = "RATE_LIMIT"
            /\ rg.resp.http = ErrorHttp(429)
            /\ rg.resp.allow_retry )

\* C22: every error code the handler can select has its own entry in the
\* descriptor table and is accepted by the ErrorResponse schema, so the error
\* is reported with exactly that code: for an empty recognition result,
\* LOW_CONFIDENCE in the low-confidence zone and EMPTY_RESULT otherwise.
C22_SelectedCodeIsReported ==
    ( rg.pc = "returned" /\ rg.handled /\ ~rg.valid )
    => LET code == IF rg.low THEN "LOW_CONFIDENCE" ELSE "EMPTY_RESULT"
       IN  /\ code \in DOMAIN ERROR_DEFINITIONS
           /\ ErrorResponseValid(code)
           /\ rg.resp.kind = "error"
           /\ rg.resp.error_code = code

\* C28: every item that leaves the coercion has a non-empty name and
\* non-negative grams, kcal, protein, fat and carbohydrates: an upstream item
\* with a negative value or an empty name never appears in a recognition
\* outcome.
C28_ItemsWellFormed ==
    rg.pc = "returned"
    => \A i \in 1 .. Len(rg.items) :
         /\ rg.items[i].name # ""
         /\ \A f \in NumericFields : rg.items[i][f] >= 0


\* the recognition call failed, and neither by a timeout of its last attempt
\* nor by an upstream 429
FailedOtherwise ==
    /\ rg.pc = "raised"
    /\ ~( cl.pc = "raised" /\ cl.outcomes[Len(cl.outcomes)].kind = "timeout" )
    /\ ~( cl.pc = "returned" /\ cl.status = 429 )

\* C32: a recognition failure that is neither a timeout nor an upstream 429
\* (another status, a connection error, an unexpected response structure, an
\* answer with a missing or non-numeric required field) is reported as
\* UPSTREAM_ERROR, whatever text the upstream body or the field name contains.
C32_OtherFailureIsUpstreamError ==
    ( rg.handled /\ FailedOtherwise ) => rg.resp.error_code = "UPSTREAM_ERROR"

\* the completion text parsed held a preamble and the separator
AnswerMarked == AnswerParsed /\ Len(rg.body.text) = 2

\* the outcome of the same call had the answer been the text t
OutcomeFor(t) == recognize_food_with_bytes(cl, RecogBody("content", t), {})

\* C34: when the recognition text contains the separator, only the text after
\* it is parsed: a call whose text is a preamble, the separator and a rest
\* ends like the call whose text is the rest alone (same items, totals, notes
\* or failure), whatever the preamble holds, also a JSON object with items of
\* its own; without the separator the entire text is the parse source.
C34_PreambleHasNoEffect ==
    /\ AnswerMarked
       => LET alone == OutcomeFor(<<rg.body.text[2]>>)
          IN  /\ rg.pc = alone.pc
              /\ rg.parse = alone.parse
              /\ rg.items = alone.items
              /\ rg.total = alone.total
              /\ rg.notes = alone.notes
              /\ rg.text = alone.text
              /\ rg.msg = alone.msg
    /\ ( AnswerMarked /\ rg.body.text[2].root = "object"
         /\ rg.body.text[2].items_kind = "list" /\ rg.pc = "returned" )
       => /\ Len(rg.items) = Len(rg.body.text[2].items)
          /\ rg.notes = IF rg.body.text[2].notes = "absent" THEN "None"
                        ELSE rg.body.text[2].notes
    /\ ( AnswerParsed /\ Len(rg.body.text) = 1 /\ rg.body.text[1].root = "object"
         /\ rg.body.text[1].items_kind = "list" /\ rg.pc = "returned" )
       => Len(rg.items) = Len(rg.body.text[1].items)

\* C34 witness: the preamble held an object with a 250 kcal item and notes,
\* the text after the separator one item of 200 kcal without notes: one item
\* of 200 kcal is returned, without notes
C34_Witness ==
    /\ AnswerMarked
    /\ rg.body.text[1].root = "object"
    /\ rg.body.text[2] = Content("object", "list", <<BaseItem>>, Absent, "absent")
    /\ rg.pc = "returned"
    /\ Len(rg.items) = 1
    /\ rg.items[1].kcal = 200
    /\ rg.total.kcal = 200
    /\ rg.notes = "None"

\* the messages of the OpenRouterError that recognize_food_with_bytes and
\* parse_ai_response raise (their fixed part)
RecognitionMessages ==
    { "Request to OpenRouter API timed out",
      "Failed to connect to OpenRouter API",
      "OpenRouter API returned",
      "Unexpected response structure from OpenRouter",
      "Missing required field in AI response",
      "Invalid data type in AI response",
      "Unexpected error" }

OnSuccessPath == rg.handled /\ rg.valid

====
